---- MODULE Spec2Model ----
(***************************************************************************)
(* Ledger transaction engine of debank: WalletService.Deposit, Withdraw    *)
(* and Transfer (service layer) running against the PostgreSQL ledger      *)
(* (accounts, transactions, postings, the balance trigger, the deferred    *)
(* double-entry trigger, row locks and the unique index on                 *)
(* transactions.idempotency_key).                                          *)
(*                                                                         *)
(* Every repository call is one atomic step of a worker; the service's     *)
(* local computation that follows a call is part of that step.  Rows       *)
(* written inside an open database transaction are kept per worker (tx)    *)
(* and become part of the committed tables only at Commit, which is what   *)
(* READ COMMITTED makes visible to every other session.                    *)
(***************************************************************************)
EXTENDS Integers, Sequences, FiniteSets, TLC

\* ------------------------------------------------------------------------
\* Bounds of the model
\* ------------------------------------------------------------------------
NumWorkers == 2
MaxRequests == 2
MaxSignups == 1

Workers == 1..NumWorkers
NoWorker == 0

\* ------------------------------------------------------------------------
\* Business rules (service constants)
\* ------------------------------------------------------------------------
MinDepositAmount == 10000
MinWithdrawAmount == 10000
MinTransferAmount == 10000
MaxTransactionAmount == 100000000

\* ------------------------------------------------------------------------
\* The accounts table as the seeds leave it: the two system accounts
\* (seeds/001_system_accounts.sql) and the wallets of the three test users
\* (seeds/002_test_data.sql), with the ids the sequence gives them in the
\* order of insertion.  user_id = NullUser stands for NULL.
\* ------------------------------------------------------------------------
NullUser == -1

AccountRows ==
    (1 :> [external_id |-> "sys_reserve", type |-> "system", user_id |-> NullUser]) @@
    (2 :> [external_id |-> "sys_fee", type |-> "system", user_id |-> NullUser]) @@
    (3 :> [external_id |-> "user_1", type |-> "user", user_id |-> 1]) @@
    (4 :> [external_id |-> "user_2", type |-> "user", user_id |-> 2]) @@
    (5 :> [external_id |-> "user_3", type |-> "user", user_id |-> 3])

AccountIds == DOMAIN AccountRows
NoAccount == 0

\* The values accounts.id can take within the bounds: the seeded rows and one
\* value of the sequence for each signup.
AccountIdRange == 1..(Cardinality(AccountIds) + MaxSignups)

\* Initial funding of the wallets by the seed transaction (id 1): 100000
\* kobo each, debited from the reserve.
SeedFunding == (3 :> 100000) @@ (4 :> 100000) @@ (5 :> 100000)

SeedTransaction ==
    [id |-> 1, idempotency_key |-> "seed_initial_funding", kind |-> "deposit",
     status |-> "posted"]

SeedPostings ==
    {[transaction_id |-> 1, account_id |-> a, amount |-> SeedFunding[a]] :
        a \in DOMAIN SeedFunding}
    \cup {[transaction_id |-> 1, account_id |-> 1, amount |-> -300000]}

\* The two definitions of the transactions table in the repository: the
\* core ledger migration (001_core_ledger.sql: idempotency_key, kind, status,
\* reference, metadata) and schema/001_schema.sql, which adds amount BIGINT
\* NOT NULL without a default.
Schemas == {"001_core_ledger", "001_schema"}

\* ------------------------------------------------------------------------
\* Requests the callers may send
\* ------------------------------------------------------------------------
Users == {1, 2, 3}            \* the users of seeds/002_test_data.sql
MissingUser == 4              \* no wallet until a signup on the seeded tables creates it
UnsetUser == 0                \* the zero value of a user id left out: no wallet
Callers == {1, 2}             \* the users the requests below are sent for
Amounts == {60000}
Fees == {0, 5000}
Keys == {"k1", "k2"}

DepositRequests ==
    [op : {"deposit"}, user_id : Callers, to_user_id : {0},
     amount : Amounts, fee : {0}, key : Keys]

WithdrawRequests ==
    [op : {"withdraw"}, user_id : Callers, to_user_id : {0},
     amount : Amounts, fee : {0}, key : Keys]

TransferRequests ==
    {r \in [op : {"transfer"}, user_id : Callers, to_user_id : Callers,
            amount : Amounts, fee : Fees, key : Keys] :
        r.user_id # r.to_user_id}

\* One specimen of each: the requests the validation accepts.
BaseRequests ==
    {r \in DepositRequests \cup WithdrawRequests \cup TransferRequests :
        r.user_id = 1 /\ r.key = "k1" /\ r.fee = 0}

\* A second valid amount: all that a seeded wallet holds.
OtherAmount == 100000

\* Requests with one attribute out of the ordinary: no key, a zero amount,
\* a user without a wallet, the third seeded user under the other key, for
\* deposits another amount and, for transfers, a negative fee, the whole
\* wallet with a fee on top, a recipient without a wallet, sender =
\* recipient, and a sender or a recipient without a wallet whose id orders
\* before the other party's.
OddRequests ==
    UNION {
        {[b EXCEPT !.key = ""], [b EXCEPT !.amount = 0],
         [b EXCEPT !.user_id = MissingUser]} \cup
        (IF b.op = "deposit"
         THEN {[b EXCEPT !.amount = OtherAmount],
               [b EXCEPT !.user_id = 3, !.key = "k2"]}
         ELSE {}) \cup
        (IF b.op = "transfer"
         THEN {[b EXCEPT !.fee = -5000], [b EXCEPT !.to_user_id = MissingUser],
               [b EXCEPT !.amount = OtherAmount, !.fee = 5000],
               [b EXCEPT !.to_user_id = b.user_id],
               [b EXCEPT !.to_user_id = UnsetUser],
               [b EXCEPT !.user_id = UnsetUser, !.to_user_id = 2]}
         ELSE {}) : b \in BaseRequests}

Requests ==
    DepositRequests \cup WithdrawRequests \cup TransferRequests \cup OddRequests

\* Requests around the limits of the validation: amounts at and next to 0,
\* the minimum and the maximum, with and without a key, transfers to
\* another wallet and to oneself, with a fee of -1, 0 or 1.
BoundaryAmounts ==
    {-1, 0, 1, MinDepositAmount - 1, MinDepositAmount, MaxTransactionAmount,
     MaxTransactionAmount + 1}

BoundaryRequests ==
    [op : {"deposit", "withdraw"}, user_id : {1}, to_user_id : {0},
     amount : BoundaryAmounts, fee : {0}, key : {"", "k1"}]
    \cup
    [op : {"transfer"}, user_id : {1}, to_user_id : {1, 2},
     amount : BoundaryAmounts, fee : {-1, 0, 1}, key : {"", "k1"}]

NoRequest ==
    [op |-> "none", user_id |-> 0, to_user_id |-> 0, amount |-> 0, fee |-> 0,
     key |-> ""]

\* ------------------------------------------------------------------------
\* Pure helpers
\* ------------------------------------------------------------------------
RECURSIVE SumAmounts(_)
SumAmounts(S) ==
    IF S = {} THEN 0
    ELSE LET p == CHOOSE x \in S : TRUE
         IN  p.amount + SumAmounts(S \ {p})

\* WHERE user_id = $1 on the rows given: the account id of a user's wallet,
\* NoAccount if none.  A NULL user_id equals no value.
AccountIdIn(rows, u) ==
    IF \E a \in DOMAIN rows : rows[a].user_id # NullUser /\ rows[a].user_id = u
    THEN CHOOSE a \in DOMAIN rows :
           rows[a].user_id # NullUser /\ rows[a].user_id = u
    ELSE NoAccount

\* WHERE external_id = $1 on the rows given (external_id is UNIQUE).
ExternalAccountIn(rows, ext) ==
    IF \E a \in DOMAIN rows : rows[a].external_id = ext
    THEN CHOOSE a \in DOMAIN rows : rows[a].external_id = ext
    ELSE NoAccount

\* WHERE external_id = $1 AND type = 'system' on the rows given.
SystemAccountIn(rows, ext) ==
    IF \E a \in DOMAIN rows : rows[a].external_id = ext /\ rows[a].type = "system"
    THEN CHOOSE a \in DOMAIN rows :
           rows[a].external_id = ext /\ rows[a].type = "system"
    ELSE NoAccount

\* Trigger create_account_on_user_signup: the row create_user_account()
\* inserts for a new user (no external_id, type user, balance 0).
create_user_account(user_id) ==
    [external_id |-> "", type |-> "user", user_id |-> user_id]

\* Fault: the minimum is exclusive.
validateDepositAmountExclusive(amount) ==
    IF amount <= 0 THEN "ErrInvalidAmount"
    ELSE IF amount <= MinDepositAmount THEN "ErrAmountTooSmall"
    ELSE IF amount > MaxTransactionAmount THEN "ErrAmountTooLarge"
    ELSE "nil"

validateDepositAmount(amount) ==
    IF amount <= 0 THEN "ErrInvalidAmount"
    ELSE IF amount < MinDepositAmount THEN "ErrAmountTooSmall"
    ELSE IF amount > MaxTransactionAmount THEN "ErrAmountTooLarge"
    ELSE "nil"

validateWithdrawAmount(amount) ==
    IF amount <= 0 THEN "ErrInvalidAmount"
    ELSE IF amount < MinWithdrawAmount THEN "ErrAmountTooSmall"
    ELSE IF amount > MaxTransactionAmount THEN "ErrAmountTooLarge"
    ELSE "nil"

validateTransferAmount(amount) ==
    IF amount <= 0 THEN "ErrInvalidAmount"
    ELSE IF amount < MinTransferAmount THEN "ErrAmountTooSmall"
    ELSE IF amount > MaxTransactionAmount THEN "ErrAmountTooLarge"
    ELSE "nil"

\* Fault: Transfer validates the key and the amount only.
ValidateRequestKeyAndAmount(r) ==
    IF r.key = "" THEN "ErrInvalidIdempotencyKey"
    ELSE IF r.op = "deposit" THEN validateDepositAmount(r.amount)
    ELSE IF r.op = "withdraw" THEN validateWithdrawAmount(r.amount)
    ELSE validateTransferAmount(r.amount)

\* Step 1 of Deposit / Withdraw / Transfer: the input validation, in the
\* order the service evaluates it.  "nil" when the request is accepted.
ValidateRequest(r) ==
    IF r.key = "" THEN "ErrInvalidIdempotencyKey"
    ELSE IF r.op = "deposit" THEN validateDepositAmount(r.amount)
    ELSE IF r.op = "withdraw" THEN validateWithdrawAmount(r.amount)
    ELSE IF r.user_id = r.to_user_id THEN "ErrSameAccount"
    ELSE IF validateTransferAmount(r.amount) # "nil"
         THEN validateTransferAmount(r.amount)
    ELSE IF r.fee < 0 THEN "ErrInvalidAmount"
    ELSE "nil"

\* Fault: the wallets are locked in argument order, sender then recipient.
LockOrderFromThenTo(from, to) == <<from, to>>

\* executeTransfer: the pair <<firstUserID, secondUserID>> of users in the
\* order their wallets are locked ("always lock the account with lower
\* user_id first").
LockOrder(from, to) == IF to < from THEN <<to, from>> ELSE <<from, to>>

firstUserID(r) == LockOrder(r.user_id, r.to_user_id)[1]
secondUserID(r) == LockOrder(r.user_id, r.to_user_id)[2]

\* Go's int64.  A value is held as three limbs <<hi, mid, lo>> of 4, 30 and
\* 30 bits, two's complement.
Limb == 1073741824
TopLimb == 16

MaxInt64 == <<7, Limb - 1, Limb - 1>>
MinInt64 == <<8, 0, 0>>

\* The int64 of an integer of magnitude below 2^30.
Int64Of(n) == IF n >= 0 THEN <<0, 0, n>> ELSE <<TopLimb - 1, Limb - 1, Limb + n>>

\* x + y as Go computes it on int64: the carry out of the top bit is lost.
Add64(x, y) ==
    LET lo == x[3] + y[3]
        mid == x[2] + y[2] + (lo \div Limb)
        hi == x[1] + y[1] + (mid \div Limb)
    IN  <<hi % TopLimb, mid % Limb, lo % Limb>>

\* x < 0
Negative64(x) == x[1] >= TopLimb \div 2

\* x < y, signed.
Less64(x, y) ==
    IF Negative64(x) # Negative64(y) THEN Negative64(x)
    ELSE \/ x[1] < y[1]
         \/ x[1] = y[1] /\ x[2] < y[2]
         \/ x[1] = y[1] /\ x[2] = y[2] /\ x[3] < y[3]

\* -x as Go computes it on int64.
Neg64(x) == Add64(<<TopLimb - 1 - x[1], Limb - 1 - x[2], Limb - 1 - x[3]>>, Int64Of(1))

\* The database's arithmetic raises an error instead of wrapping. A number
\* of any size is held as <<hi, mid, lo>> with hi a signed integer.
Exact(x) == <<IF Negative64(x) THEN x[1] - TopLimb ELSE x[1], x[2], x[3]>>

ExactAdd(x, y) ==
    LET lo == x[3] + y[3]
        mid == x[2] + y[2] + (lo \div Limb)
    IN  <<x[1] + y[1] + (mid \div Limb), mid % Limb, lo % Limb>>

\* The number fits a BIGINT column.
InBigint(e) == e[1] >= -(TopLimb \div 2) /\ e[1] < TopLimb \div 2

\* The integer of a number of magnitude below 2^30.
IntOf(e) ==
    CASE e[1] = 0 /\ e[2] = 0 -> e[3]
      [] e[1] = -1 /\ e[2] = Limb - 1 -> e[3] - Limb

\* x < y for two numbers of any size.
ExactLess(x, y) ==
    \/ x[1] < y[1]
    \/ x[1] = y[1] /\ x[2] < y[2]
    \/ x[1] = y[1] /\ x[2] = y[2] /\ x[3] < y[3]

\* totalDebit := req.Amount + req.Fee, an addition of two int64; the
\* amount and the fee are given as integers.
totalDebit(r) == IntOf(Exact(Add64(Int64Of(r.amount), Int64Of(r.fee))))

\* ------------------------------------------------------------------------
\* State
\* ------------------------------------------------------------------------
VARIABLES
    accountRows,    \* the committed rows of the accounts table, by account id
    schema,         \* the definition the transactions table was created from
    users_id_seq,   \* last value of the users.id sequence
    accounts_id_seq, \* last value of the accounts.id sequence
    accounts,       \* committed accounts.balance, by account id
    transactions,   \* committed rows of the transactions table
    postings,       \* committed rows of the postings table
    txn_id_seq,     \* last value of the transactions.id sequence
    lockHolder,     \* row lock on each account: the worker holding it
    tx,             \* per worker: the rows its open database transaction wrote
    pc,             \* per worker: the repository call it makes next
    req,            \* per worker: the request being served (or served last)
    local,          \* per worker: balances read, id of the transaction created / found,
                    \* id its INSERT INTO transactions drew and waits with
    resp,           \* per worker: the response of the last finished request
    issued,         \* number of requests received since the initial state
    lockSeq,        \* per worker: the accounts locked by the request, in order
    checkLocks,     \* per worker: the accounts it had locked when its balance rule ran
    priorTxn        \* per worker: id committed under the key on arrival, or 0

db == <<accounts, transactions, postings>>
\* What no ledger operation writes: the rows of accounts (balances apart),
\* the table definitions and the sequences of users and accounts.
catalog == <<accountRows, schema, users_id_seq, accounts_id_seq>>
vars ==
    <<accountRows, schema, users_id_seq, accounts_id_seq, accounts, transactions, postings, txn_id_seq,
      lockHolder, tx, pc, req, local, resp, issued, lockSeq, checkLocks,
      priorTxn>>

\* GetAccountByUserID / GetAccountByUserIDForUpdate: WHERE user_id = $1.
AccountIdOfUser(u) == AccountIdIn(accountRows, u)

\* GetSystemAccount / GetSystemAccountForUpdate: WHERE external_id = $1 AND
\* type = 'system'.
SystemAccountId(ext) == SystemAccountIn(accountRows, ext)

\* What the seed files leave in the database.  Their INSERTs name neither
\* accounts.account_number, users.phone nor transactions.amount, which
\* schema/001_schema.sql declares NOT NULL: on that schema every one of them
\* is refused and the tables stay empty.
Seeded == schema = "001_core_ledger"
SeededRows == IF Seeded THEN AccountRows ELSE [a \in {} |-> create_user_account(0)]
SeededTransactions == IF Seeded THEN {SeedTransaction} ELSE {}
SeededPostings == IF Seeded THEN SeedPostings ELSE {}

\* The balance of every account row, before and after it exists.
SeedBalances ==
    [a \in AccountIdRange |-> SumAmounts({p \in SeededPostings : p.account_id = a})]

\* The sequences after the seed files.  A sequence keeps a value it gave to
\* an INSERT that was refused: on schema/001_schema.sql the first row of
\* INSERT INTO accounts (001_system_accounts.sql) and the first row of
\* INSERT INTO users (002_test_data.sql) each took one value before the
\* NOT NULL column refused it, and the statements after the refused one, in
\* the same BEGIN ... COMMIT, were not executed.
SeedUsersIdSeq ==
    IF Seeded
    THEN Cardinality({a \in DOMAIN SeededRows : SeededRows[a].type = "user"})
    ELSE 1
SeedAccountsIdSeq == IF Seeded THEN Cardinality(DOMAIN SeededRows) ELSE 1

\* The wallets the signups made so far have created.
SignupRows == DOMAIN accountRows \ DOMAIN SeededRows
SignupsDone == Cardinality(SignupRows)

\* The signups that reached their INSERT so far.
SignupsTried == users_id_seq - SeedUsersIdSeq

NoTx ==
    [txn |-> {}, postings |-> {}, delta |-> [a \in AccountIdRange |-> 0]]

NoLocal == [first |-> 0, second |-> 0, txn_id |-> 0, existing |-> 0, nextval |-> 0]

NoResp ==
    [err |-> "none", txn_id |-> 0, status |-> "", balance |-> 0,
     recipient_balance |-> 0, replay |-> FALSE]

NotChecked == {NoAccount}

Init ==
    /\ schema \in Schemas
    /\ accountRows = SeededRows
    /\ users_id_seq = SeedUsersIdSeq
    /\ accounts_id_seq = SeedAccountsIdSeq
    /\ accounts = SeedBalances
    /\ transactions = SeededTransactions
    /\ postings = SeededPostings
    /\ txn_id_seq = Cardinality(SeededTransactions)
    /\ lockHolder = [a \in AccountIdRange |-> NoWorker]
    /\ tx = [w \in Workers |-> NoTx]
    /\ pc = [w \in Workers |-> "idle"]
    /\ req = [w \in Workers |-> NoRequest]
    /\ local = [w \in Workers |-> NoLocal]
    /\ resp = [w \in Workers |-> NoResp]
    /\ issued = 0
    /\ lockSeq = [w \in Workers |-> <<>>]
    /\ checkLocks = [w \in Workers |-> NotChecked]
    /\ priorTxn = [w \in Workers |-> 0]

\* ------------------------------------------------------------------------
\* The service's control flow: the repository call that follows each call
\* ------------------------------------------------------------------------
FirstStep(r) == IF r.op = "transfer" THEN "lock_first" ELSE "lock_user"

\* Fault: executeTransfer leaves out the fee posting.
NextStepFeeSkipped(r, step) ==
    CASE step = "lock_user" -> "lock_reserve"
      [] step = "lock_reserve" -> "create_txn"
      [] step = "lock_first" -> "lock_second"
      [] step = "lock_second" -> "create_txn"
      [] step = "create_txn" -> "post1"
      [] step = "post1" -> "post2"
      [] step = "post2" -> "commit"
      [] step = "lock_fee" -> "post3"
      [] step = "post3" -> "commit"

NextStep(r, step) ==
    CASE step = "lock_user" -> "lock_reserve"
      [] step = "lock_reserve" -> "create_txn"
      [] step = "lock_first" -> "lock_second"
      [] step = "lock_second" -> "create_txn"
      [] step = "create_txn" -> "post1"
      [] step = "post1" -> "post2"
      [] step = "post2" ->
            IF r.op = "transfer" /\ r.fee > 0 THEN "lock_fee" ELSE "commit"
      [] step = "lock_fee" -> "post3"
      [] step = "post3" -> "commit"

TxSteps ==
    {"lock_user", "lock_reserve", "lock_first", "lock_second", "create_txn",
     "post1", "post2", "lock_fee", "post3", "commit"}

\* The user whose wallet a GetAccountByUserIDForUpdate call locks.
UserToLock(r, step) ==
    CASE step = "lock_user" -> r.user_id
      [] step = "lock_first" -> firstUserID(r)
      [] step = "lock_second" -> secondUserID(r)

\* The external_id a GetSystemAccountForUpdate call locks.
SystemToLock(step) == IF step = "lock_fee" THEN "sys_fee" ELSE "sys_reserve"

\* Kind of the transaction row each operation inserts.
KindOf(r) ==
    CASE r.op = "deposit" -> "deposit"
      [] r.op = "withdraw" -> "withdrawal"
      [] r.op = "transfer" -> "p2p"

\* Fault: the sender is debited the amount without the fee.
PostingForFeeForgotten(r, step, txnId) ==
    [transaction_id |-> txnId,
     account_id |->
         CASE step = "post3" -> SystemAccountId("sys_fee")
           [] r.op = "deposit" /\ step = "post1" -> SystemAccountId("sys_reserve")
           [] r.op = "withdraw" /\ step = "post2" -> SystemAccountId("sys_reserve")
           [] r.op = "transfer" /\ step = "post2" -> AccountIdOfUser(r.to_user_id)
           [] OTHER -> AccountIdOfUser(r.user_id),
     amount |->
         CASE step = "post3" -> r.fee
           [] r.op = "deposit" /\ step = "post1" -> -r.amount
           [] r.op = "withdraw" /\ step = "post1" -> -r.amount
           [] r.op = "transfer" /\ step = "post1" -> -r.amount
           [] OTHER -> r.amount]

\* The posting each CreatePosting call of the operation inserts.
PostingFor(r, step, txnId) ==
    CASE r.op = "deposit" /\ step = "post1" ->
            [transaction_id |-> txnId, account_id |-> SystemAccountId("sys_reserve"),
             amount |-> -r.amount]
      [] r.op = "deposit" /\ step = "post2" ->
            [transaction_id |-> txnId, account_id |-> AccountIdOfUser(r.user_id),
             amount |-> r.amount]
      [] r.op = "withdraw" /\ step = "post1" ->
            [transaction_id |-> txnId, account_id |-> AccountIdOfUser(r.user_id),
             amount |-> -r.amount]
      [] r.op = "withdraw" /\ step = "post2" ->
            [transaction_id |-> txnId, account_id |-> SystemAccountId("sys_reserve"),
             amount |-> r.amount]
      [] r.op = "transfer" /\ step = "post1" ->
            [transaction_id |-> txnId, account_id |-> AccountIdOfUser(r.user_id),
             amount |-> -totalDebit(r)]
      [] r.op = "transfer" /\ step = "post2" ->
            [transaction_id |-> txnId, account_id |-> AccountIdOfUser(r.to_user_id),
             amount |-> r.amount]
      [] r.op = "transfer" /\ step = "post3" ->
            [transaction_id |-> txnId, account_id |-> SystemAccountId("sys_fee"),
             amount |-> r.fee]

\* executeTransfer "map back to sender/recipient": the balances read under
\* lock, as <<sender, recipient>>.
MapBack(r, first, second) ==
    IF firstUserID(r) = r.user_id THEN <<first, second>> ELSE <<second, first>>

\* The balance the sufficiency check of Withdraw / Transfer compares, given
\* the balances read so far.
DebitedBalance(r, l) ==
    IF r.op = "transfer" THEN MapBack(r, l.first, l.second)[1] ELSE l.first

\* Fault: Transfer checks the balance after the first lock only.
CheckStepAfterFirstLock(r) ==
    CASE r.op = "withdraw" -> "lock_user"
      [] r.op = "transfer" -> "lock_first"
      [] OTHER -> "none"

\* The step after which the operation evaluates its balance rule.
CheckStep(r) ==
    CASE r.op = "withdraw" -> "lock_user"
      [] r.op = "transfer" -> "lock_second"
      [] OTHER -> "none"

\* Fault: the sufficiency check is left out.
InsufficientBalanceUnchecked(balance, debit) == FALSE

\* if account.Balance < debit { return ErrInsufficientBalance }
InsufficientBalance(balance, debit) == balance < debit

\* ------------------------------------------------------------------------
\* The database
\* ------------------------------------------------------------------------
\* Fault: the query lacks FOR UPDATE, the row is read without being locked.
ForUpdateMissing(lh, a, w) == lh

\* Fault: the query does not wait for the row lock (the lock is taken over).
RowLockNeverWaits(a, w) == TRUE

\* Fault: the lock is taken on the accounts table, not on the row.
RowLockTableWide(a, w) == \A b \in AccountIdRange : lockHolder[b] \in {NoWorker, w}

\* SELECT ... FOR UPDATE returns once no other session holds the row lock.
RowLockFree(a, w) == lockHolder[a] \in {NoWorker, w}

\* ... and leaves the row locked by the caller's transaction.
ForUpdate(lh, a, w) == [lh EXCEPT ![a] = w]

\* The UPDATE of the balance trigger locks the row it updates.
RowUpdateLock(lh, a, w) == [lh EXCEPT ![a] = w]

\* Locks released at the end of w's database transaction.
Released(w) ==
    [a \in AccountIdRange |-> IF lockHolder[a] = w THEN NoWorker ELSE lockHolder[a]]

\* Fault: the balance column is not scanned, the response carries 0.
CommittedBalanceNotRead(a) == 0

\* SELECT balance FROM accounts (no lock): the committed balance.
CommittedBalance(a) == accounts[a]

\* Fault: the lookup also reads rows of transactions still open (dirty
\* read).
TransactionsByKeyDirty(key) ==
    {t \in transactions \cup UNION {tx[o].txn : o \in Workers} :
        t.idempotency_key = key}

\* Fault: the lookup never finds the key.
TransactionsByKeyNotFound(key) == {}

\* SELECT ... FROM transactions WHERE idempotency_key = $1 (committed rows).
TransactionsByKey(key) == {t \in transactions : t.idempotency_key = key}

\* Fault: the column has no UNIQUE constraint.
UniqueMissing(key) == FALSE

\* transactions.idempotency_key UNIQUE: a committed row carries the key.
UniqueViolation(key) == \E t \in transactions : t.idempotency_key = key

\* ... or an open transaction of another session inserted it; the insert
\* waits for that session to end.
KeyInFlight(key, w) ==
    \E o \in Workers \ {w} : \E t \in tx[o].txn : t.idempotency_key = key

\* Fault: the trigger is not installed, the balance column is left alone.
balance_trigger_missing(balance, amount) == balance

\* Fault: the trigger fires twice for each posting.
balance_trigger_twice(balance, amount) == balance + amount + amount

\* Fault: the trigger applies credits and drops debits.
balance_trigger_credits_only(balance, amount) ==
    IF amount > 0 THEN balance + amount ELSE balance

\* Trigger update_balance_trigger.
update_account_balance_on_posting(balance, amount) == balance + amount

\* Fault: the CHECK exempts no account type.
valid_balance_every_type(type, balance) == balance >= 0

\* Fault: the accounts table has no CHECK on the balance.
valid_balance_missing(type, balance) == TRUE

\* CHECK valid_balance on accounts.
valid_balance(type, balance) == balance >= 0 \/ type \in {"system", "reserve"}

\* CHECK non_zero_amount on postings.
non_zero_amount(amount) == amount # 0

\* Constraint trigger postings_balance_trigger, run at commit for every row
\* the transaction inserted into postings.
enforce_double_entry(w) ==
    \A p \in tx[w].postings :
        SumAmounts({q \in postings \cup tx[w].postings :
                       q.transaction_id = p.transaction_id}) = 0

\* tx.Commit: the rows written by w join the committed tables.
CommitWrites(w) ==
    /\ accounts' = [a \in AccountIdRange |-> accounts[a] + tx[w].delta[a]]
    /\ transactions' = transactions \cup tx[w].txn
    /\ postings' = postings \cup tx[w].postings
    /\ tx' = [tx EXCEPT ![w] = NoTx]
    /\ lockHolder' = Released(w)

\* Fault: the deferred call is missing, the transaction stays open on its
\* connection with the row locks it took.
RollbackMissing(w) ==
    /\ UNCHANGED <<accounts, transactions, postings, lockHolder>>
    /\ tx' = [tx EXCEPT ![w] = NoTx]

\* Fault: the deferred call commits instead of rolling back.
RollbackCommits(w) == CommitWrites(w)

\* tx.Rollback (deferred in every execute function): the rows are discarded.
Rollback(w) ==
    /\ UNCHANGED <<accounts, transactions, postings>>
    /\ tx' = [tx EXCEPT ![w] = NoTx]
    /\ lockHolder' = Released(w)

ErrResp(e) == [NoResp EXCEPT !.err = e]

\* The operation returns an error to its caller; the open transaction, if
\* any, is rolled back.
ReturnError(w, e) ==
    /\ Rollback(w)
    /\ resp' = [resp EXCEPT ![w] = ErrResp(e)]
    /\ pc' = [pc EXCEPT ![w] = "idle"]

\* ------------------------------------------------------------------------
\* Actions
\* ------------------------------------------------------------------------
\* A caller sends a request; the service validates it.
Validate(w, r) ==
    /\ pc[w] = "idle"
    /\ issued < MaxRequests
    /\ req' = [req EXCEPT ![w] = r]
    /\ priorTxn' =
         [priorTxn EXCEPT ![w] =
             IF \E t \in transactions : t.idempotency_key = r.key
             THEN (CHOOSE t \in transactions : t.idempotency_key = r.key).id
             ELSE 0]
    /\ IF ValidateRequest(r) # "nil"
       THEN /\ resp' = [resp EXCEPT ![w] = ErrResp(ValidateRequest(r))]
            /\ pc' = [pc EXCEPT ![w] = "idle"]
       ELSE /\ resp' = [resp EXCEPT ![w] = NoResp]
            /\ pc' = [pc EXCEPT ![w] = "lookup"]
    /\ issued' = issued + 1
    /\ lockSeq' = [lockSeq EXCEPT ![w] = <<>>]
    /\ checkLocks' = [checkLocks EXCEPT ![w] = NotChecked]
    /\ local' = [local EXCEPT ![w] = NoLocal]
    /\ UNCHANGED <<catalog, accounts, transactions, postings, txn_id_seq, lockHolder, tx>>

Begin(w) == \E r \in Requests : Validate(w, r)

\* The same step for a request at the limits of the validation.
BeginAtLimits(w) == \E r \in BoundaryRequests : Validate(w, r)

\* GetTransactionByIdempotencyKey, outside any transaction: the key is
\* found (replay), is new (the operation goes on to BeginTx), or the query
\* fails for another reason and the operation returns "idempotency check
\* failed".
GetTransactionByIdempotencyKey(w) ==
    /\ pc[w] = "lookup"
    /\ \/ /\ LET existingTxn == TransactionsByKey(req[w].key)
             IN  IF existingTxn # {}
                 THEN /\ local' = [local EXCEPT ![w].existing =
                                      (CHOOSE t \in existingTxn : TRUE).id]
                      /\ pc' = [pc EXCEPT ![w] = "replay"]
                 ELSE /\ pc' = [pc EXCEPT ![w] = FirstStep(req[w])]
                      /\ UNCHANGED local
          /\ UNCHANGED resp
       \/ /\ resp' = [resp EXCEPT ![w] = ErrResp("idempotency check failed")]
          /\ pc' = [pc EXCEPT ![w] = "idle"]
          /\ UNCHANGED local
    /\ UNCHANGED <<catalog, accounts, transactions, postings, txn_id_seq, lockHolder, tx,
                   req, issued, lockSeq, checkLocks, priorTxn>>

\* buildIdempotentResponse / buildIdempotentTransferResponse: one
\* GetAccountByUserID (no lock) per step; the row is found, is missing, or
\* the query fails for another reason ("failed to get account").
BuildIdempotentResponse(w) ==
    /\ pc[w] \in {"replay", "replay2"}
    /\ \/ LET r == req[w]
              u == IF pc[w] = "replay" THEN r.user_id ELSE r.to_user_id
              a == AccountIdOfUser(u)
          IN  IF a = NoAccount
              THEN /\ resp' = [resp EXCEPT ![w] = ErrResp("ErrAccountNotFound")]
                   /\ pc' = [pc EXCEPT ![w] = "idle"]
                   /\ UNCHANGED local
              ELSE IF r.op = "transfer" /\ pc[w] = "replay"
              THEN /\ local' = [local EXCEPT ![w].first = CommittedBalance(a)]
                   /\ pc' = [pc EXCEPT ![w] = "replay2"]
                   /\ UNCHANGED resp
              ELSE /\ resp' =
                        [resp EXCEPT ![w] =
                            [err |-> "nil", txn_id |-> local[w].existing,
                             status |-> "posted",
                             balance |->
                                 IF r.op = "transfer" THEN local[w].first
                                 ELSE CommittedBalance(a),
                             recipient_balance |->
                                 IF r.op = "transfer" THEN CommittedBalance(a) ELSE 0,
                             replay |-> TRUE]]
                   /\ pc' = [pc EXCEPT ![w] = "idle"]
                   /\ UNCHANGED local
       \/ /\ resp' = [resp EXCEPT ![w] = ErrResp("failed to get account")]
          /\ pc' = [pc EXCEPT ![w] = "idle"]
          /\ UNCHANGED local
    /\ UNCHANGED <<catalog, accounts, transactions, postings, txn_id_seq, lockHolder, tx,
                   req, issued, lockSeq, checkLocks, priorTxn>>

\* GetAccountByUserIDForUpdate, followed by the balance rule where the
\* operation evaluates it right after this lock.
GetAccountByUserIDForUpdate(w) ==
    /\ pc[w] \in {"lock_user", "lock_first", "lock_second"}
    /\ LET r == req[w]
           a == AccountIdOfUser(UserToLock(r, pc[w]))
       IN  IF a = NoAccount
           THEN /\ ReturnError(w, "ErrAccountNotFound")
                /\ UNCHANGED <<local, lockSeq, checkLocks>>
           ELSE /\ RowLockFree(a, w)
                /\ LET held == ForUpdate(lockHolder, a, w)
                       l == IF pc[w] = "lock_second"
                            THEN [local[w] EXCEPT !.second = accounts[a] + tx[w].delta[a]]
                            ELSE [local[w] EXCEPT !.first = accounts[a] + tx[w].delta[a]]
                   IN  /\ local' = [local EXCEPT ![w] = l]
                       /\ lockSeq' = [lockSeq EXCEPT ![w] = Append(@, a)]
                       /\ IF pc[w] = CheckStep(r)
                          THEN /\ checkLocks' =
                                    [checkLocks EXCEPT ![w] =
                                        {lockSeq[w][i] : i \in 1..Len(lockSeq[w])}
                                        \cup {a}]
                               /\ IF InsufficientBalance(DebitedBalance(r, l), totalDebit(r))
                                  THEN ReturnError(w, "ErrInsufficientBalance")
                                  ELSE /\ lockHolder' = held
                                       /\ pc' = [pc EXCEPT ![w] = NextStep(r, pc[w])]
                                       /\ UNCHANGED <<accounts, transactions, postings, tx, resp>>
                          ELSE /\ lockHolder' = held
                               /\ pc' = [pc EXCEPT ![w] = NextStep(r, pc[w])]
                               /\ UNCHANGED <<accounts, transactions, postings, tx, resp, checkLocks>>
    /\ UNCHANGED <<catalog, txn_id_seq, req, issued, priorTxn>>

\* GetSystemAccountForUpdate("sys_reserve" | "sys_fee"); without the row the
\* operation returns "reserve account not found" / "fee account not found".
GetSystemAccountForUpdate(w) ==
    /\ pc[w] \in {"lock_reserve", "lock_fee"}
    /\ LET a == SystemAccountId(SystemToLock(pc[w]))
       IN  IF a = NoAccount
           THEN /\ ReturnError(w, IF pc[w] = "lock_reserve"
                                  THEN "reserve account not found"
                                  ELSE "fee account not found")
                /\ UNCHANGED lockSeq
           ELSE /\ RowLockFree(a, w)
                /\ lockHolder' = ForUpdate(lockHolder, a, w)
                /\ lockSeq' = [lockSeq EXCEPT ![w] = Append(@, a)]
                /\ pc' = [pc EXCEPT ![w] = NextStep(req[w], pc[w])]
                /\ UNCHANGED <<accounts, transactions, postings, tx, resp>>
    /\ UNCHANGED <<catalog, txn_id_seq, req, local, issued, checkLocks, priorTxn>>

\* Fault: the row is inserted with the column's default status.
TransactionStatusDefault(r) == "pending"

\* The status of the models.Transaction the operation hands to
\* CreateTransaction.
TransactionStatus(r) == "posted"

\* INSERT INTO transactions (idempotency_key, kind, status, reference
\* [, metadata]) names no amount: the table of schema/001_schema.sql, where
\* amount is NOT NULL and has no default, rejects the row.
NotNullViolation == schema = "001_schema"

\* CreateTransaction: INSERT INTO transactions ... RETURNING id.  The
\* statement draws the id from the sequence first.  A row without amount is
\* refused at once where the column is NOT NULL.  Otherwise the row goes to
\* the unique index on idempotency_key: while an open transaction of
\* another session holds an uncommitted row with the same key, the
\* statement waits there, the id already drawn; when no such row is left,
\* it is refused if a committed row carries the key and inserted, under
\* the id drawn, if none does.
CreateTransaction(w) ==
    /\ pc[w] = "create_txn"
    /\ LET waited == local[w].nextval # 0
           id == IF waited THEN local[w].nextval ELSE txn_id_seq + 1
       IN  /\ txn_id_seq' = IF waited THEN txn_id_seq ELSE id
           /\ IF ~NotNullViolation /\ KeyInFlight(req[w].key, w)
              THEN /\ ~waited
                   /\ local' = [local EXCEPT ![w].nextval = id]
                   /\ UNCHANGED <<accounts, transactions, postings, lockHolder, tx,
                                  pc, resp>>
              ELSE IF NotNullViolation \/ UniqueViolation(req[w].key)
              THEN /\ ReturnError(w, "failed to create transaction")
                   /\ local' = [local EXCEPT ![w].nextval = 0]
              ELSE /\ tx' = [tx EXCEPT ![w].txn =
                               {[id |-> id, idempotency_key |-> req[w].key,
                                 kind |-> KindOf(req[w]),
                                 status |-> TransactionStatus(req[w])]}]
                   /\ local' = [local EXCEPT ![w].txn_id = id, ![w].nextval = 0]
                   /\ pc' = [pc EXCEPT ![w] = NextStep(req[w], pc[w])]
                   /\ UNCHANGED <<accounts, transactions, postings, lockHolder, resp>>
    /\ UNCHANGED <<catalog, req, issued, lockSeq, checkLocks, priorTxn>>

\* CreatePosting: INSERT INTO postings, with the row-level trigger that adds
\* the amount to the account's balance (locking the account row) and the
\* CHECK constraints of both tables.
CreatePosting(w) ==
    /\ pc[w] \in {"post1", "post2", "post3"}
    /\ LET r == req[w]
           p == PostingFor(r, pc[w], local[w].txn_id)
           a == p.account_id
           nb == update_account_balance_on_posting(accounts[a] + tx[w].delta[a], p.amount)
       IN  /\ RowLockFree(a, w)
           /\ IF non_zero_amount(p.amount) /\ valid_balance(accountRows[a].type, nb)
              THEN /\ tx' = [tx EXCEPT ![w].postings = @ \cup {p},
                                       ![w].delta[a] = nb - accounts[a]]
                   /\ lockHolder' = RowUpdateLock(lockHolder, a, w)
                   /\ pc' = [pc EXCEPT ![w] = NextStep(r, pc[w])]
                   /\ UNCHANGED <<accounts, transactions, postings, resp>>
              ELSE ReturnError(w, "failed to create posting")
    /\ UNCHANGED <<catalog, txn_id_seq, req, local, issued, lockSeq, checkLocks, priorTxn>>

\* Fault: the response carries the balances as they were read, before the
\* operation's own postings.
SuccessRespBalancesAsRead(r, l, txnId) ==
    LET sr == MapBack(r, l.first, l.second)
    IN  [err |-> "nil", txn_id |-> txnId, status |-> "posted",
         balance |-> IF r.op = "transfer" THEN sr[1] ELSE l.first,
         recipient_balance |-> IF r.op = "transfer" THEN sr[2] ELSE 0,
         replay |-> FALSE]

\* The balances the operation reports after a successful commit.
SuccessResp(r, l, txnId) ==
    LET sr == MapBack(r, l.first, l.second)
    IN  [err |-> "nil", txn_id |-> txnId, status |-> "posted",
         balance |->
             CASE r.op = "deposit" -> l.first + r.amount
               [] r.op = "withdraw" -> l.first - r.amount
               [] r.op = "transfer" -> sr[1] - totalDebit(r),
         recipient_balance |->
             IF r.op = "transfer" THEN sr[2] + r.amount ELSE 0,
         replay |-> FALSE]

\* tx.Commit, the deferred double-entry trigger included, and the response
\* the operation builds from the balances it read under lock.
Commit(w) ==
    /\ pc[w] = "commit"
    /\ IF enforce_double_entry(w)
       THEN /\ CommitWrites(w)
            /\ LET ok == SuccessResp(req[w], local[w], local[w].txn_id)
               IN  resp' = [resp EXCEPT ![w] =
                               IF req[w].op # "transfer" /\ ok.balance < 0
                               THEN ErrResp("ErrNegativeBalance")
                               ELSE ok]
            /\ pc' = [pc EXCEPT ![w] = "idle"]
            /\ checkLocks' =
                 [checkLocks EXCEPT ![w] =
                     IF req[w].op = "deposit"
                     THEN {lockSeq[w][i] : i \in 1..Len(lockSeq[w])}
                     ELSE @]
       ELSE /\ ReturnError(w, "failed to commit")
            /\ UNCHANGED checkLocks
    /\ UNCHANGED <<catalog, txn_id_seq, req, local, issued, lockSeq, priorTxn>>

\* A repository call of the open transaction fails (connection lost, context
\* cancelled, commit refused): the operation returns the error.
Fail(w) ==
    /\ pc[w] \in TxSteps
    /\ ReturnError(w, IF pc[w] = "commit" THEN "failed to commit" ELSE "infrastructure")
    /\ UNCHANGED <<catalog, txn_id_seq, req, local, issued, lockSeq, checkLocks, priorTxn>>

\* AuthService.Signup -> UserRepository.CreateUser: INSERT INTO users, whose
\* trigger create_account_on_user_signup inserts the wallet of the new user
\* in the same statement.  The user takes the next value of the users.id
\* sequence and the wallet the next value of the accounts.id sequence.  A
\* Signup that finds the phone or the email taken returns before the INSERT
\* and changes nothing.  An INSERT that is refused leaves the tables as they
\* were and keeps the values the sequences gave out: the users row is
\* refused (phone_format, or the phone or the email was taken meanwhile)
\* before the trigger runs; the trigger's INSERT is refused when the
\* account number, made of the first nine digits of the phone, is that of a
\* wallet an earlier signup created.
Signup ==
    /\ SignupsTried < MaxSignups
    /\ users_id_seq' = users_id_seq + 1
    /\ \/ /\ accounts_id_seq' = accounts_id_seq + 1
          /\ accountRows' =
                accountRows @@
                (accounts_id_seq + 1 :> create_user_account(users_id_seq + 1))
       \/ /\ accounts_id_seq' \in
                {accounts_id_seq} \cup
                (IF SignupRows # {} THEN {accounts_id_seq + 1} ELSE {})
          /\ accountRows' = accountRows
    /\ UNCHANGED <<schema, accounts, transactions, postings, txn_id_seq, lockHolder,
                   tx, pc, req, local, resp, issued, lockSeq, checkLocks, priorTxn>>

Step(w) ==
    \/ Begin(w)
    \/ GetTransactionByIdempotencyKey(w)
    \/ BuildIdempotentResponse(w)
    \/ GetAccountByUserIDForUpdate(w)
    \/ GetSystemAccountForUpdate(w)
    \/ CreateTransaction(w)
    \/ CreatePosting(w)
    \/ Commit(w)

Next == (\E w \in Workers : Step(w) \/ Fail(w)) \/ Signup

Spec == Init /\ [][Next]_vars

\* Scheduling: a worker that can make its next repository call eventually
\* makes it; failures are not owed to anyone.
FairSpec == Spec /\ \A w \in Workers : WF_vars(Step(w))

\* ------------------------------------------------------------------------
\* The ledger after one call has been served: the state in which a retry of
\* that call, and whatever else the callers send, arrives.
\* ------------------------------------------------------------------------
FirstCalls == BaseRequests

\* The accounts the operation r locks, in order, when it runs alone.
LocksOf(r) ==
    CASE r.op = "transfer" ->
            <<AccountIdOfUser(firstUserID(r)), AccountIdOfUser(secondUserID(r))>>
            \o (IF r.fee > 0 THEN <<SystemAccountId("sys_fee")>> ELSE <<>>)
      [] OTHER -> <<AccountIdOfUser(r.user_id), SystemAccountId("sys_reserve")>>

PostingSteps(r) ==
    {"post1", "post2"} \cup (IF r.op = "transfer" /\ r.fee > 0 THEN {"post3"} ELSE {})

\* The state worker 1 leaves when it has served r on the seeded ledger.
AfterFirstCall(r) ==
    LET id == SeedTransaction.id + 1
        written == {PostingFor(r, st, id) : st \in PostingSteps(r)}
        locks == LocksOf(r)
        l == [first |-> SeedFunding[locks[1]],
              second |-> IF r.op = "transfer" THEN SeedFunding[locks[2]] ELSE 0,
              txn_id |-> id, existing |-> 0, nextval |-> 0]
    IN  /\ schema = "001_core_ledger"
        /\ postings = SeedPostings \cup written
        /\ accounts =
             [a \in AccountIdRange |-> SumAmounts({p \in postings : p.account_id = a})]
        /\ transactions =
             {SeedTransaction,
              [id |-> id, idempotency_key |-> r.key, kind |-> KindOf(r),
               status |-> "posted"]}
        /\ txn_id_seq = id
        /\ lockHolder = [a \in AccountIdRange |-> NoWorker]
        /\ tx = [w \in Workers |-> NoTx]
        /\ pc = [w \in Workers |-> "idle"]
        /\ req = [w \in Workers |-> IF w = 1 THEN r ELSE NoRequest]
        /\ local = [w \in Workers |-> IF w = 1 THEN l ELSE NoLocal]
        /\ resp = [w \in Workers |->
                     IF w = 1 THEN SuccessResp(r, l, id) ELSE NoResp]
        /\ lockSeq = [w \in Workers |-> IF w = 1 THEN locks ELSE <<>>]
        /\ checkLocks =
             [w \in Workers |->
                 IF w # 1 THEN NotChecked
                 ELSE CASE r.op = "withdraw" -> {locks[1]}
                        [] r.op = "transfer" -> {locks[1], locks[2]}
                        [] OTHER -> {locks[i] : i \in 1..Len(locks)}]
        /\ priorTxn = [w \in Workers |-> 0]

RetryInit ==
    /\ accountRows = AccountRows
    /\ \E r \in FirstCalls : AfterFirstCall(r) /\ issued = 0
    /\ users_id_seq = SeedUsersIdSeq
    /\ accounts_id_seq = SeedAccountsIdSeq

\* The validation alone, on requests at its limits.
ValidationNext == \E w \in Workers : BeginAtLimits(w)

ValidationSpec == Init /\ [][ValidationNext]_vars

\* The service from the moment a first call has been answered.
RetrySpec == RetryInit /\ [][Next]_vars

\* ------------------------------------------------------------------------
\* Properties
\* ------------------------------------------------------------------------
PostingsOfTransaction(id) == {p \in postings : p.transaction_id = id}
PostingsOfAccount(a) == {p \in postings : p.account_id = a}

ReserveAccount == SystemAccountId("sys_reserve")
FeeAccount == SystemAccountId("sys_fee")

Finished(w) == pc[w] = "idle" /\ resp[w].err # "none"

\* A call of the repository failed for a reason outside the ledger: the
\* connection, the context, the commit.
OutsideLedger ==
    {"infrastructure", "failed to commit", "idempotency check failed",
     "failed to get account"}
Succeeded(w) == pc[w] = "idle" /\ resp[w].err = "nil"
Created(w) == Succeeded(w) /\ ~resp[w].replay
Failed(w) == Finished(w) /\ resp[w].err # "nil"

\* The postings the double-entry law expects of an operation: amount and
\* account of each leg.
ExpectedLegs(r) ==
    CASE r.op = "deposit" ->
            {<<ReserveAccount, -r.amount>>, <<AccountIdOfUser(r.user_id), r.amount>>}
      [] r.op = "withdraw" ->
            {<<AccountIdOfUser(r.user_id), -r.amount>>, <<ReserveAccount, r.amount>>}
      [] r.op = "transfer" ->
            {<<AccountIdOfUser(r.user_id), -(r.amount + r.fee)>>,
             <<AccountIdOfUser(r.to_user_id), r.amount>>}
            \cup (IF r.fee > 0 THEN {<<FeeAccount, r.fee>>} ELSE {})

Legs(ps) == {<<p.account_id, p.amount>> : p \in ps}

\* C1 (zero-sum): the postings of every committed transaction sum to 0, and
\* the postings an operation has written when it commits are the legs of
\* its kind: Deposit -amount on reserve and +amount on the user, Withdraw
\* -amount on the user and +amount on reserve, Transfer -(amount+fee) on the
\* sender, +amount on the recipient and, when fee > 0, +fee on the fee
\* account.
C1_ZeroSum ==
    /\ \A t \in transactions : SumAmounts(PostingsOfTransaction(t.id)) = 0
    /\ \A w \in Workers :
          pc[w] = "commit" =>
             /\ Legs(tx[w].postings) = ExpectedLegs(req[w])
             /\ SumAmounts(tx[w].postings) = 0

\* A transfer with a fee has committed its three postings.
C1_Witness ==
    \E t \in transactions :
        /\ t.kind = "p2p"
        /\ Cardinality(PostingsOfTransaction(t.id)) = 3

\* C2 (balance consistency): in every state, whatever operations have
\* committed or aborted, each account's committed balance is the sum of the
\* committed postings that reference it.
C2_BalanceConsistency ==
    \A a \in AccountIdRange : accounts[a] = SumAmounts(PostingsOfAccount(a))

\* One operation has committed and another was aborted after it had written
\* all its postings.
C2_Witness ==
    \E w, o \in Workers :
        /\ Created(w)
        /\ Failed(o) /\ resp[o].err = "failed to commit"

\* The account whose balance the sufficiency check of a debit reads.
DebitedAccount(r) == AccountIdOfUser(r.user_id)

\* w has passed the sufficiency check of a Withdraw or Transfer and has not
\* ended its database transaction.
AuthorisedDebit(w) ==
    /\ req[w].op \in {"withdraw", "transfer"}
    /\ pc[w] \in TxSteps
    /\ checkLocks[w] # NotChecked

\* C3 (non-negativity): every user account's committed balance is >= 0, and
\* a debit is authorised only by a balance read under the exclusive lock on
\* the debited account: from the check to the end of the transaction the
\* worker holds that lock, and the balance it compared is the committed one
\* and covers the debit.
C3_NonNegative ==
    /\ \A a \in DOMAIN accountRows : accountRows[a].type = "user" => accounts[a] >= 0
    /\ \A w \in Workers :
          AuthorisedDebit(w) =>
             /\ lockHolder[DebitedAccount(req[w])] = w
             /\ DebitedBalance(req[w], local[w]) = accounts[DebitedAccount(req[w])]
             /\ DebitedBalance(req[w], local[w]) >= totalDebit(req[w])

\* Two debits of the same user: one committed, the other was refused under
\* the lock because the first had taken the money.
C3_Witness ==
    \E w, o \in Workers :
        /\ w # o
        /\ req[w].op \in {"withdraw", "transfer"}
        /\ req[o].op \in {"withdraw", "transfer"}
        /\ req[w].user_id = req[o].user_id
        /\ Created(w)
        /\ Failed(o) /\ resp[o].err = "ErrInsufficientBalance"
        /\ accounts[DebitedAccount(req[w])] < totalDebit(req[o])

\* C4 (idempotency key): at most one committed transaction carries a given
\* idempotency key, whatever the kind, owner or amount of the requests
\* that carried it.
C4_OneTransactionPerKey ==
    \A t, u \in transactions :
        t.idempotency_key = u.idempotency_key => t.id = u.id

\* Two requests of different kinds carried the same new key: one committed,
\* the insert of the other was rejected by the unique index.
C4_Witness ==
    \E w, o \in Workers :
        /\ w # o
        /\ req[w].key = req[o].key
        /\ req[w].op # req[o].op
        /\ Created(w)
        /\ Failed(o) /\ resp[o].err = "failed to create transaction"

\* A transaction committed under w's key by a request that had not found
\* the key either: the winner of the race for a new key.
SameNewKey(w, o) ==
    /\ w # o
    /\ req[w].key = req[o].key
    /\ priorTxn[w] = 0 /\ priorTxn[o] = 0

\* C5 (race for a new key), as claimed: when two requests carry the same
\* unused key and one of them creates the transaction, the other one,
\* rejected by the unique index, answers with a success carrying the same
\* transaction id, never with an error.
C5_LoserReplays ==
    \A w, o \in Workers :
        (/\ SameNewKey(w, o)
         /\ Created(w)
         /\ Finished(o)
         /\ resp[o].err \notin OutsideLedger
         /\ resp[o].err \notin {"ErrAccountNotFound", "ErrInsufficientBalance",
                                "failed to create posting"}
         /\ ValidateRequest(req[o]) = "nil")
        => /\ resp[o].err = "nil"
           /\ resp[o].txn_id = resp[w].txn_id

\* The requests of a key that was committed before they arrived.
LaterRequest(w) == priorTxn[w] # 0

UsersOf(r) == IF r.op = "transfer" THEN {r.user_id, r.to_user_id} ELSE {r.user_id}

\* A later request side-steps the whole unit of work.
NoSideEffect(w) ==
    /\ pc[w] \in {"idle", "lookup", "replay", "replay2"}
    /\ tx[w] = NoTx
    /\ lockSeq[w] = <<>>
    /\ \A a \in AccountIdRange : lockHolder[a] # w

\* C6 as claimed: every later request with a committed key returns, unless
\* a call of the repository fails, the committed transaction's id with
\* status posted.
C6_EveryLaterRequestReplays ==
    \A w \in Workers :
        (LaterRequest(w) /\ Finished(w) /\ resp[w].err \notin OutsideLedger) =>
            /\ resp[w].err = "nil"
            /\ resp[w].txn_id = priorTxn[w]
            /\ resp[w].status = "posted"

\* The step by which w returns from the replay path, and the user whose
\* wallet that step reads.
ReplayReturns(w) == pc[w] \in {"replay", "replay2"} /\ pc'[w] = "idle"
UserRead(w) == IF pc[w] = "replay" THEN req[w].user_id ELSE req[w].to_user_id

\* C6 (replay), amended: once a transaction is committed under key K, a
\* later request with key K creates no transaction and no posting, takes
\* no lock and changes no balance; if it fails the input validation it
\* returns the validation error, and if it passes, its users have a wallet
\* when the replay reads them and neither the lookup nor the read fails,
\* it returns the committed transaction's id with status posted.
C6_LaterRequestReplays ==
    /\ [](\A w \in Workers :
            LaterRequest(w) =>
                /\ NoSideEffect(w)
                /\ (Finished(w) /\ ValidateRequest(req[w]) # "nil") =>
                      resp[w].err = ValidateRequest(req[w]))
    /\ [][\A w \in Workers :
            (/\ LaterRequest(w)
             /\ ReplayReturns(w)
             /\ resp'[w].err \notin OutsideLedger
             /\ AccountIdOfUser(UserRead(w)) # NoAccount)
            => /\ resp'[w].err = "nil"
               /\ resp'[w].replay
               /\ resp'[w].txn_id = priorTxn[w]
               /\ resp'[w].status = "posted"]_vars

\* A request was answered from the transaction another request had
\* committed under the same key.
C6_Witness ==
    \E w, o \in Workers :
        /\ w # o
        /\ Created(o)
        /\ LaterRequest(w) /\ Succeeded(w)
        /\ resp[w].txn_id = resp[o].txn_id
        /\ req[w].key = req[o].key

\* The account row the next call of w needs locked.
AccountNeeded(w) ==
    CASE pc[w] \in {"lock_user", "lock_first", "lock_second"} ->
            AccountIdOfUser(UserToLock(req[w], pc[w]))
      [] pc[w] \in {"lock_reserve", "lock_fee"} ->
            SystemAccountId(SystemToLock(pc[w]))
      [] pc[w] \in {"post1", "post2", "post3"} ->
            PostingFor(req[w], pc[w], local[w].txn_id).account_id
      [] OTHER -> NoAccount

\* The workers w is waiting for: the holder of the row lock it needs, or
\* the sessions with an uncommitted insert of its idempotency key.
WaitsFor(w) ==
    (IF AccountNeeded(w) # NoAccount
        /\ lockHolder[AccountNeeded(w)] \notin {NoWorker, w}
     THEN {lockHolder[AccountNeeded(w)]} ELSE {})
    \cup
    (IF pc[w] = "create_txn"
     THEN {o \in Workers \ {w} :
              \E t \in tx[o].txn : t.idempotency_key = req[w].key}
     ELSE {})

RECURSIVE WaitChain(_, _)
\* The workers reachable from the set S in at most n steps of waiting.
WaitChain(S, n) ==
    IF n = 0 THEN S
    ELSE WaitChain(S \cup UNION {WaitsFor(o) : o \in S}, n - 1)

NoWaitCycle ==
    \A w \in Workers : w \notin WaitChain(WaitsFor(w), NumWorkers)

\* C7 (deadlock freedom): no state has a cycle of workers each waiting for
\* a lock or an uncommitted key held by the next, and under fair scheduling
\* every request that was received is eventually answered: whatever a
\* worker is serving, it always comes to be idle again.
C7_DeadlockFree ==
    /\ []NoWaitCycle
    /\ \A w \in Workers : []<>(pc[w] = "idle")

\* Two transfers in opposite directions between the same two wallets: one
\* holds the lower-ordered wallet, the other waits for it.
C7_Witness ==
    \E w, o \in Workers :
        /\ req[w].op = "transfer" /\ req[o].op = "transfer"
        /\ req[w].user_id = req[o].to_user_id
        /\ req[w].to_user_id = req[o].user_id
        /\ pc[w] = "lock_first" /\ WaitsFor(w) = {o}
        /\ pc[o] = "lock_second"

\* C8 (atomicity): when an operation has returned an error, the committed
\* tables hold no transaction (hence no idempotency key) and no posting it
\* wrote, it holds no lock and no uncommitted row, and every balance is
\* still the sum of the committed postings; the lookup of a later request
\* with the key of an operation that failed, no transaction being
\* committed under that key, reports not-found and the request is served
\* as a new one.
C8_ErrorLeavesNothing ==
    /\ [](\A w \in Workers :
            Failed(w) =>
                /\ tx[w] = NoTx
                /\ \A a \in AccountIdRange : lockHolder[a] # w
                /\ \A a \in AccountIdRange :
                      accounts[a] = SumAmounts(PostingsOfAccount(a))
                /\ local[w].txn_id # 0 =>
                      /\ \A t \in transactions : t.id # local[w].txn_id
                      /\ \A p \in postings : p.transaction_id # local[w].txn_id)
    /\ [][\A w, o \in Workers :
            (/\ Failed(o) /\ req[o].key = req[w].key
             /\ pc[w] = "lookup" /\ pc'[w] # "lookup"
             /\ resp'[w].err # "idempotency check failed"
             /\ \A t \in transactions : t.idempotency_key # req[w].key) =>
                /\ pc'[w] = FirstStep(req[w])
                /\ local'[w].existing = 0]_vars

\* An operation failed after it had created its transaction row.
C8_Witness ==
    \E w \in Workers :
        /\ Failed(w)
        /\ resp[w].err = "infrastructure"
        /\ local[w].txn_id # 0

\* The accounts an operation writes a posting to.
AccountsMutated(r) == {leg[1] : leg \in ExpectedLegs(r)}

UserAccounts(r) == {AccountIdOfUser(u) : u \in UsersOf(r)}

\* C9 as claimed: when an operation evaluates its balance rule it has
\* locked every account it will mutate, the reserve or fee account
\* included.
C9_AllLocksBeforeCheck ==
    \A w \in Workers :
        checkLocks[w] # NotChecked => AccountsMutated(req[w]) \subseteq checkLocks[w]

\* C9 (locks before the balance rule), amended: when an operation evaluates
\* its balance rule it has locked every user account it will mutate; the
\* reserve account (Withdraw) and the fee account (Transfer with a fee) are
\* locked after the rule and before their posting: every posting is
\* written to an account the worker has locked.
C9_UserLocksBeforeCheck ==
    \A w \in Workers :
        /\ checkLocks[w] # NotChecked => UserAccounts(req[w]) \subseteq checkLocks[w]
        /\ \A p \in tx[w].postings :
              /\ lockHolder[p.account_id] = w
              /\ \E i \in 1..Len(lockSeq[w]) : lockSeq[w][i] = p.account_id

\* A transfer with a fee passed its balance rule holding both wallets and
\* not the fee account, and has since locked and credited the fee account.
C9_Witness ==
    \E w \in Workers :
        /\ req[w].op = "transfer" /\ req[w].fee > 0
        /\ pc[w] = "commit"
        /\ checkLocks[w] = UserAccounts(req[w])
        /\ FeeAccount \notin checkLocks[w]
        /\ lockHolder[FeeAccount] = w

Swap(pair) == <<pair[2], pair[1]>>

\* The wallets a transfer has locked, as a pair, once it has locked both.
LockedPair(w) == <<lockSeq[w][1], lockSeq[w][2]>>

OppositeTransfers(w, o) ==
    /\ req[w].op = "transfer" /\ req[o].op = "transfer"
    /\ req[w].user_id = req[o].to_user_id
    /\ req[w].to_user_id = req[o].user_id
    /\ Len(lockSeq[w]) >= 2 /\ Len(lockSeq[o]) >= 2

\* C10 as claimed, lock_order(a,b) = swap(lock_order(b,a)): of two
\* transfers in opposite directions, each locks first the wallet the other
\* locks second.
C10_LockOrderSwapped ==
    \A w, o \in Workers :
        OppositeTransfers(w, o) =>
            /\ LockedPair(w) = Swap(LockedPair(o))
            /\ LockOrder(req[w].user_id, req[w].to_user_id)
                   = Swap(LockOrder(req[o].user_id, req[o].to_user_id))

\* C10 (lock order), amended: the order in which Transfer locks the two
\* wallets depends on the unordered pair only: Transfer(a to b) and
\* Transfer(b to a) lock the same wallet first and the same wallet second,
\* lock_order(a,b) = lock_order(b,a), the wallet of the lower user id first.
C10_LockOrderSymmetric ==
    /\ \A a, b \in Users : a # b => LockOrder(a, b) = LockOrder(b, a)
    /\ \A w \in Workers :
          (req[w].op = "transfer" /\ Len(lockSeq[w]) >= 1) =>
              \A u \in UsersOf(req[w]) :
                  accountRows[lockSeq[w][1]].user_id <= u
    /\ \A w, o \in Workers :
          OppositeTransfers(w, o) => LockedPair(w) = LockedPair(o)

\* Transfers in both directions have locked the two wallets.
C10_Witness ==
    \E w, o \in Workers : w # o /\ OppositeTransfers(w, o)

RECURSIVE SumBalances(_)
\* SELECT SUM(balance) FROM accounts WHERE id IN S.
SumBalances(S) ==
    IF S = {} THEN 0
    ELSE LET a == CHOOSE x \in S : TRUE
         IN  accounts[a] + SumBalances(S \ {a})

\* The total the seeded ledger starts with.
SeedTotal == SumAmounts(SeedPostings)

\* C11 (conservation of funds): in every state the balances of all accounts,
\* user, reserve and fee accounts together, add up to the total the ledger
\* started with, whatever operations have committed or aborted, and the
\* postings an operation is about to commit leave the total unchanged.
C11_FundsConserved ==
    /\ SumBalances(AccountIdRange) = SeedTotal
    /\ \A w \in Workers :
          pc[w] = "commit" =>
              SumBalances(AccountIdRange) + SumAmounts(tx[w].postings) = SeedTotal

\* A transfer with a fee has committed (three balances changed) and another
\* operation was aborted after it had created its transaction row.
C11_Witness ==
    /\ \E t \in transactions :
          t.kind = "p2p" /\ accounts[FeeAccount] > 0
    /\ \E w \in Workers :
          Failed(w) /\ local[w].txn_id # 0 /\ resp[w].err = "infrastructure"

\* w is past the balance rule of its operation, inside its unit of work.
PastCheck(w) ==
    /\ pc[w] \in TxSteps
    /\ pc[w] \notin {"lock_user", "lock_first", "lock_second"}

\* w's operation was refused for lack of funds.
Refused(w) == Failed(w) /\ resp[w].err = "ErrInsufficientBalance"

\* The operation of w wrote nothing: no transaction row was inserted, no
\* uncommitted row is left, no lock is held.
WroteNothing(w) ==
    /\ local[w].txn_id = 0
    /\ tx[w] = NoTx
    /\ \A a \in AccountIdRange : lockHolder[a] # w

\* The step on which w returns the error e leaves the three tables as they
\* were.
ErrorStepKeepsTables(w, e) ==
    (resp'[w].err = e /\ pc[w] # "idle" /\ pc'[w] = "idle") =>
        /\ accounts' = accounts
        /\ transactions' = transactions
        /\ postings' = postings
        /\ txn_id_seq' = txn_id_seq

\* C12 (Withdraw, insufficient balance): a Withdraw goes past its balance
\* rule only if the balance it read under the lock covers the amount;
\* otherwise it returns ErrInsufficientBalance, has written nothing, and the
\* step that returns the error leaves every balance, the user's included,
\* as it was.
C12_WithdrawRefused ==
    /\ [](\A w \in Workers :
            req[w].op = "withdraw" =>
                /\ PastCheck(w) => local[w].first >= req[w].amount
                /\ Refused(w) =>
                      /\ local[w].first < req[w].amount
                      /\ WroteNothing(w))
    /\ [][\A w \in Workers :
            req[w].op = "withdraw" =>
                ErrorStepKeepsTables(w, "ErrInsufficientBalance")]_vars

\* A Withdraw of more than the wallet holds was refused and the wallet
\* still holds what the Withdraw read.
C12_Witness ==
    \E w \in Workers :
        /\ req[w].op = "withdraw"
        /\ Refused(w)
        /\ accounts[AccountIdOfUser(req[w].user_id)] = local[w].first
        /\ local[w].first < req[w].amount

\* The change of account a's balance that operation r is to make.
ExpectedChange(r, a) ==
    CASE r.op = "deposit" ->
            IF a = AccountIdOfUser(r.user_id) THEN r.amount
            ELSE IF a = ReserveAccount THEN -r.amount ELSE 0
      [] r.op = "withdraw" ->
            IF a = AccountIdOfUser(r.user_id) THEN -r.amount
            ELSE IF a = ReserveAccount THEN r.amount ELSE 0
      [] r.op = "transfer" ->
            IF a = AccountIdOfUser(r.user_id) THEN -(r.amount + r.fee)
            ELSE IF a = AccountIdOfUser(r.to_user_id) THEN r.amount
            ELSE IF a = FeeAccount THEN r.fee ELSE 0

\* The step by which w commits its operation.
CommitsNow(w) == pc[w] = "commit" /\ pc'[w] = "idle" /\ resp'[w].err = "nil"

\* C14 (effect of an operation): the commit of an operation changes the
\* balances by exactly these amounts and no other account: Deposit +amount
\* on the user and -amount on the reserve, Withdraw -amount on the user and
\* +amount on the reserve, Transfer -(amount+fee) on the sender, +amount on
\* the recipient and +fee on the fee account; no other step changes a
\* committed balance.
C14_ExactEffect ==
    [][/\ \A w \in Workers :
            CommitsNow(w) =>
                \A a \in AccountIdRange :
                    accounts'[a] = accounts[a] + ExpectedChange(req[w], a)
       /\ accounts' # accounts => \E w \in Workers : CommitsNow(w)]_vars

\* A transfer with a fee has committed on the seeded ledger: the sender is
\* down by amount + fee, the recipient up by the amount, the fee account
\* holds the fee.
C14_Witness ==
    \E w \in Workers :
        /\ req[w].op = "transfer" /\ req[w].fee > 0
        /\ Created(w)
        /\ accounts[FeeAccount] = req[w].fee
        /\ accounts[AccountIdOfUser(req[w].user_id)]
              = SeedBalances[AccountIdOfUser(req[w].user_id)] - req[w].amount - req[w].fee
        /\ accounts[AccountIdOfUser(req[w].to_user_id)]
              = SeedBalances[AccountIdOfUser(req[w].to_user_id)] + req[w].amount

\* w has answered, from the replay path, the same call that o had served.
RetryOf(w, o) ==
    /\ w # o
    /\ req[w] = req[o]
    /\ Created(o)
    /\ Succeeded(w) /\ resp[w].replay

\* C15 as claimed: the retry of a call returns the final balance the first
\* call returned, whatever was committed on the account in between.
C15_RetrySameBalance ==
    \A w, o \in Workers :
        RetryOf(w, o) =>
            /\ resp[w].balance = resp[o].balance
            /\ resp[w].recipient_balance = resp[o].recipient_balance

\* The step by which w answers from the replay path.
ReplaysNow(w) ==
    pc[w] \in {"replay", "replay2"} /\ pc'[w] = "idle" /\ resp'[w].err = "nil"

\* C15 (balance of a replay), amended: the retry of a call returns the
\* transaction id of the first call and the balance the account has, as
\* committed, when the retry reads it (for a Transfer the sender's balance,
\* then the recipient's, each as committed when read); it is the balance the
\* first call returned if the account has that balance when the retry
\* reads it.
C15_RetryCurrentBalance ==
    /\ [](\A w, o \in Workers :
            RetryOf(w, o) =>
                /\ resp[w].txn_id = resp[o].txn_id
                /\ resp[w].status = resp[o].status)
    /\ [][\A w \in Workers :
            /\ (ReplaysNow(w) /\ req[w].op # "transfer") =>
                  resp'[w].balance = accounts[AccountIdOfUser(req[w].user_id)]
            /\ (ReplaysNow(w) /\ req[w].op = "transfer") =>
                  /\ resp'[w].balance = local[w].first
                  /\ resp'[w].recipient_balance
                        = accounts[AccountIdOfUser(req[w].to_user_id)]
            /\ (pc[w] = "replay" /\ pc'[w] = "replay2") =>
                  local'[w].first = accounts[AccountIdOfUser(req[w].user_id)]
            /\ \A o \in Workers \ {w} :
                  (/\ ReplaysNow(w) /\ req[w].op # "transfer"
                   /\ req[o] = req[w] /\ Created(o)
                   /\ accounts[AccountIdOfUser(req[w].user_id)] = resp[o].balance)
                  => resp'[w].balance = resp[o].balance]_vars

\* A call was retried after another operation had committed on the same
\* wallet: the retry carries the same transaction id and another balance.
C15_Witness ==
    \E w, o \in Workers :
        /\ RetryOf(w, o)
        /\ resp[w].txn_id = resp[o].txn_id
        /\ resp[w].balance # resp[o].balance
        /\ resp[w].balance = accounts[AccountIdOfUser(req[w].user_id)]

\* The transaction with this id is committed with all its postings and
\* their balance effects: it is in the committed table, its postings sum to
\* zero over at least two accounts, no open unit of work holds a row of it,
\* and every account's balance includes its postings.
FullyCommitted(id) ==
    /\ \E t \in transactions : t.id = id
    /\ Cardinality(PostingsOfTransaction(id)) >= 2
    /\ SumAmounts(PostingsOfTransaction(id)) = 0
    /\ \A o \in Workers :
          /\ \A t \in tx[o].txn : t.id # id
          /\ \A p \in tx[o].postings : p.transaction_id # id
    /\ \A a \in AccountIdRange : accounts[a] = SumAmounts(PostingsOfAccount(a))

\* C16 (what a lookup sees): when a lookup finds a transaction for a key,
\* that transaction carries the key and is fully committed in the state
\* the lookup reads; a lookup whose query does not fail reports not-found
\* exactly when no committed transaction carries the key, whatever units
\* of work are in flight or were rolled back with that key.
C16_LookupSeesCommitted ==
    /\ [](\A w \in Workers :
            pc[w] \in {"replay", "replay2"} =>
                /\ FullyCommitted(local[w].existing)
                /\ \E t \in transactions :
                      t.id = local[w].existing /\ t.idempotency_key = req[w].key)
    /\ [][\A w \in Workers :
            (/\ pc[w] = "lookup" /\ pc'[w] # "lookup"
             /\ resp'[w].err # "idempotency check failed") =>
                IF \E t \in transactions : t.idempotency_key = req[w].key
                THEN /\ pc'[w] = "replay"
                     /\ FullyCommitted(local'[w].existing)
                ELSE /\ pc'[w] = FirstStep(req[w])
                     /\ local'[w].existing = 0]_vars

\* A lookup raced with the creation of its key: the key was not committed
\* when the request arrived, and the lookup found the transaction another
\* worker had committed meanwhile.
C16_Witness ==
    \E w, o \in Workers :
        /\ w # o
        /\ pc[w] = "replay"
        /\ priorTxn[w] = 0
        /\ Created(o)
        /\ local[w].existing = resp[o].txn_id

\* The errors of the input validation.
ValidationErrors ==
    {"ErrInvalidIdempotencyKey", "ErrInvalidAmount", "ErrAmountTooSmall",
     "ErrAmountTooLarge", "ErrSameAccount"}

\* A Transfer to the sender's own wallet, or with a negative fee.
SelfOrNegativeFee(r) ==
    r.op = "transfer" /\ (r.user_id = r.to_user_id \/ r.fee < 0)

\* The request was turned down on arrival: nothing was looked up, locked or
\* written for it.
TurnedDown(w) ==
    /\ pc[w] = "idle"
    /\ resp[w].err \in ValidationErrors
    /\ local[w] = NoLocal
    /\ lockSeq[w] = <<>>
    /\ tx[w] = NoTx
    /\ \A a \in AccountIdRange : lockHolder[a] # w

\* The step leaves the database as it was: tables, sequence, locks and
\* open transactions.
DatabaseUntouched ==
    /\ accounts' = accounts
    /\ transactions' = transactions
    /\ postings' = postings
    /\ txn_id_seq' = txn_id_seq
    /\ lockHolder' = lockHolder
    /\ tx' = tx

\* C17 (Transfer validation): a Transfer whose sender and recipient are the
\* same owner, or whose fee is negative, is turned down with a validation
\* error when it arrives, before any lookup or unit of work (ErrSameAccount
\* for the same owner, ErrInvalidAmount for the fee, when key and amount
\* are valid): no transaction, no lock, no change of balance.
C17_TransferTurnedDown ==
    /\ [](\A w \in Workers :
            SelfOrNegativeFee(req[w]) =>
                /\ TurnedDown(w)
                /\ (req[w].key # "" /\ req[w].user_id = req[w].to_user_id) =>
                      resp[w].err = "ErrSameAccount"
                /\ (/\ req[w].key # "" /\ req[w].user_id # req[w].to_user_id
                    /\ validateTransferAmount(req[w].amount) = "nil") =>
                      resp[w].err = "ErrInvalidAmount")
    /\ [][\A w \in Workers :
            (SelfOrNegativeFee(req'[w]) /\ issued' # issued)
            => DatabaseUntouched]_vars

\* Both cases were turned down: a Transfer to oneself and a Transfer with
\* a negative fee.
C17_Witness ==
    \E w, o \in Workers :
        /\ req[w].op = "transfer" /\ req[w].user_id = req[w].to_user_id
        /\ resp[w].err = "ErrSameAccount"
        /\ req[o].op = "transfer" /\ req[o].fee < 0
        /\ resp[o].err = "ErrInvalidAmount"

\* The configured minimum of each operation.
MinAmountOf(r) ==
    CASE r.op = "deposit" -> MinDepositAmount
      [] r.op = "withdraw" -> MinWithdrawAmount
      [] OTHER -> MinTransferAmount

KeyAndAmountValid(r) ==
    r.key # "" /\ MinAmountOf(r) <= r.amount /\ r.amount <= MaxTransactionAmount

\* The request of w went through the validation.
Accepted(w) == req[w] # NoRequest /\ pc[w] = "lookup" /\ resp[w].err = "none"

\* The request of w was rejected by the validation with error e.
Rejected(w, e) == req[w] # NoRequest /\ pc[w] = "idle" /\ resp[w].err = e

\* C18 as claimed: a request passes validation if and only if its key is
\* non-empty and its amount is within [min, max]; amount <= 0 is an invalid
\* amount.
C18_ValidKeyAndAmountOnly ==
    \A w \in Workers :
        req[w] # NoRequest =>
            /\ Accepted(w) <=> KeyAndAmountValid(req[w])
            /\ (req[w].key # "" /\ req[w].amount <= 0) =>
                  Rejected(w, "ErrInvalidAmount")

\* The first rule of the validation a request breaks, in the order the
\* rules are stated: key, own wallet (Transfer), amount, fee (Transfer).
FirstRuleBroken(r) ==
    IF r.key = "" THEN "ErrInvalidIdempotencyKey"
    ELSE IF r.op = "transfer" /\ r.user_id = r.to_user_id THEN "ErrSameAccount"
    ELSE IF r.amount <= 0 THEN "ErrInvalidAmount"
    ELSE IF r.amount < MinAmountOf(r) THEN "ErrAmountTooSmall"
    ELSE IF r.amount > MaxTransactionAmount THEN "ErrAmountTooLarge"
    ELSE IF r.op = "transfer" /\ r.fee < 0 THEN "ErrInvalidAmount"
    ELSE "nil"

\* C18 (validation), amended: a request passes validation if and only if
\* its key is non-empty, min <= amount <= max (both inclusive) and, for a
\* Transfer, sender and recipient differ and the fee is not negative; a
\* rejected request gets the error of the first rule it breaks (empty key,
\* Transfer to oneself, amount <= 0, amount < min, amount > max, negative
\* fee) and changes nothing in the database.
C18_Validation ==
    /\ [](\A w \in Workers :
            req[w] # NoRequest =>
                /\ Accepted(w) <=>
                      /\ KeyAndAmountValid(req[w])
                      /\ req[w].op = "transfer" =>
                            req[w].user_id # req[w].to_user_id /\ req[w].fee >= 0
                /\ ~Accepted(w) => Rejected(w, FirstRuleBroken(req[w]))
                /\ FirstRuleBroken(req[w]) # "nil" => TurnedDown(w))
    /\ [][issued' # issued => DatabaseUntouched]_vars

\* The limits are inclusive: a request at the minimum was accepted, and one
\* just above the maximum was rejected as too large.
C18_Witness ==
    \E w, o \in Workers :
        /\ req[w].amount = MinAmountOf(req[w]) /\ Accepted(w)
        /\ req[o].amount = MaxTransactionAmount + 1
        /\ Rejected(o, "ErrAmountTooLarge")

\* The operation names a user who has no wallet.
NamesMissingUser(r) == \E u \in UsersOf(r) : AccountIdOfUser(u) = NoAccount

\* C19 (account not found): an operation that passes validation and names
\* a user without a wallet never gets past its locks and, unless a call
\* of the repository fails first, returns ErrAccountNotFound having
\* written nothing; for a Transfer whichever party is missing and whichever
\* wallet is locked first; the step that returns the error leaves the
\* tables as they were and releases the lock taken on the existing wallet.
C19_AccountNotFound ==
    /\ [](\A w \in Workers :
            (req[w] # NoRequest /\ ValidateRequest(req[w]) = "nil"
             /\ NamesMissingUser(req[w])) =>
                /\ ~PastCheck(w)
                /\ (Finished(w) /\ resp[w].err \notin OutsideLedger) =>
                      /\ resp[w].err = "ErrAccountNotFound"
                      /\ WroteNothing(w))
    /\ [][\A w \in Workers :
            /\ ErrorStepKeepsTables(w, "ErrAccountNotFound")
            /\ (resp'[w].err = "ErrAccountNotFound" /\ pc'[w] = "idle") =>
                  \A a \in AccountIdRange : lockHolder'[a] # w]_vars

\* Transfers were refused for a missing party in both lock orders: one had
\* locked the existing wallet first and has released it, the other met the
\* missing wallet first.
C19_Witness ==
    \E w, o \in Workers :
        /\ req[w].op = "transfer" /\ req[o].op = "transfer"
        /\ resp[w].err = "ErrAccountNotFound" /\ pc[w] = "idle"
        /\ resp[o].err = "ErrAccountNotFound" /\ pc[o] = "idle"
        /\ Len(lockSeq[w]) = 1
        /\ lockHolder[lockSeq[w][1]] # w
        /\ lockSeq[o] = <<>>
        /\ local[o].existing = 0

\* The accounts whose row lock w's open unit of work has acquired.
Held(w) ==
    IF pc[w] \in TxSteps THEN {lockSeq[w][i] : i \in 1..Len(lockSeq[w])} ELSE {}

\* w asks for a row lock that another unit of work holds.
Blocked(w) ==
    /\ AccountNeeded(w) # NoAccount
    /\ \E o \in Workers \ {w} : AccountNeeded(w) \in Held(o)

\* The step by which w acquires the lock on account a.
Acquires(w, a) ==
    /\ a \notin Held(w)
    /\ pc'[w] \in TxSteps
    /\ Len(lockSeq'[w]) = Len(lockSeq[w]) + 1
    /\ lockSeq'[w][Len(lockSeq'[w])] = a

\* C20 (row locks): no two open units of work hold the lock on the same
\* account; a unit of work that asks for a held lock does not proceed (it
\* waits, or its call fails) until the holder has committed or rolled
\* back; when it acquires the lock no other unit of work holds it or has an
\* uncommitted change of that balance, and the balance it reads is the
\* committed one, as the last holder left it.
C20_ExclusiveLock ==
    /\ [](\A w, o \in Workers : w # o => Held(w) \cap Held(o) = {})
    /\ [](\A w \in Workers : \A a \in Held(w) : lockHolder[a] = w)
    /\ [][\A w \in Workers :
            /\ Blocked(w) =>
                  \/ pc'[w] = pc[w]
                  \/ pc'[w] = "idle" /\ resp'[w].err = "infrastructure"
            /\ \A a \in AccountIdRange :
                  Acquires(w, a) =>
                      /\ \A o \in Workers \ {w} :
                            a \notin Held(o) /\ tx[o].delta[a] = 0
                      /\ lockHolder[a] = NoWorker
                      /\ lockHolder'[a] = w
                      /\ pc[w] \in {"lock_user", "lock_first"} =>
                            local'[w].first = accounts[a]
                      /\ pc[w] = "lock_second" =>
                            local'[w].second = accounts[a]]_vars

\* A Deposit and a Withdraw of the same user: the Withdraw has committed,
\* and the Deposit now holds the lock on the wallet and has read the
\* balance the Withdraw left.
C20_Witness ==
    \E w, o \in Workers :
        /\ w # o
        /\ req[w].op = "deposit" /\ req[o].op = "withdraw"
        /\ req[w].user_id = req[o].user_id
        /\ Created(o)
        /\ AccountIdOfUser(req[w].user_id) \in Held(w)
        /\ local[w].first = resp[o].balance
        /\ local[w].first # SeedBalances[AccountIdOfUser(req[w].user_id)]

\* The errors by which an operation is turned away for a balance: the
\* sufficiency rule, a CHECK constraint on a posting, the integrity test on
\* the resulting balance.
BalanceErrors ==
    {"ErrInsufficientBalance", "failed to create posting", "ErrNegativeBalance"}

\* The posting w is about to insert passes the CHECK constraints.
NextPostingAllowed(w) ==
    LET p == PostingFor(req[w], pc[w], local[w].txn_id)
        nb == update_account_balance_on_posting(
                  accounts[p.account_id] + tx[w].delta[p.account_id], p.amount)
    IN  /\ non_zero_amount(p.amount)
        /\ valid_balance(accountRows[p.account_id].type, nb)

\* C21 (Deposit and the reserve): a valid Deposit to an existing wallet is
\* never turned away for a balance, however negative the reserve is: each
\* of its postings passes the CHECK constraints, it returns no balance
\* error, and the balance it reports and the wallet's committed balance are
\* not negative.
C21_ReserveAbsorbsDeposit ==
    \A w \in Workers :
        req[w].op = "deposit" =>
            /\ pc[w] \in {"post1", "post2"} => NextPostingAllowed(w)
            /\ Finished(w) => resp[w].err \notin BalanceErrors
            /\ Created(w) =>
                  /\ resp[w].balance >= 0
                  /\ accounts[AccountIdOfUser(req[w].user_id)] >= 0

\* Two Deposits have committed: the second debited a reserve that was
\* already below its seeded balance.
C21_Witness ==
    \E w, o \in Workers :
        /\ w # o
        /\ req[w].op = "deposit" /\ Created(w)
        /\ req[o].op = "deposit" /\ Created(o)
        /\ accounts[ReserveAccount]
              = SumAmounts({p \in SeededPostings : p.account_id = ReserveAccount})
                - req[w].amount - req[o].amount
        /\ accounts[ReserveAccount] < 0

\* w's request locked account x before account y.
LocksBefore(w, x, y) ==
    \E i, j \in 1..Len(lockSeq[w]) :
        i < j /\ lockSeq[w][i] = x /\ lockSeq[w][j] = y

\* The place of an account in the order the operations lock by: wallets by
\* ascending user id, then the reserve account, then the fee account.
LockRank(a) ==
    IF accountRows[a].type = "user" THEN accountRows[a].user_id
    ELSE IF a = ReserveAccount THEN Cardinality(Users) + MaxSignups + 1
    ELSE Cardinality(Users) + MaxSignups + 2

\* C22 (one lock order): no two operations, of any kind and with any
\* arguments, lock two accounts in opposite orders, and no operation locks
\* an account twice: every operation takes its locks in ascending order of
\* one ranking of the accounts (wallets by user id, then reserve, then fee).
C22_OneLockOrder ==
    /\ \A w, o \in Workers : \A x, y \in AccountIdRange :
          ~(LocksBefore(w, x, y) /\ LocksBefore(o, y, x))
    /\ \A w \in Workers : \A x, y \in AccountIdRange :
          LocksBefore(w, x, y) => LockRank(x) < LockRank(y)

\* A Deposit and a Withdraw of the same user have each locked the wallet
\* and then the reserve, and a Transfer the other way round would meet
\* the same wallet first.
C22_Witness ==
    \E w, o \in Workers :
        /\ req[w].op = "deposit" /\ req[o].op = "withdraw"
        /\ Len(lockSeq[w]) = 2 /\ lockSeq[o] = lockSeq[w]
        /\ LocksBefore(w, AccountIdOfUser(req[w].user_id), ReserveAccount)

\* ------------------------------------------------------------------------
\* WalletRepository.Deposit / WalletRepository.Withdraw: one database
\* transaction per call, no SELECT ... FOR UPDATE; an account row is locked
\* only when a posting insert fires the balance trigger on it.
\* ------------------------------------------------------------------------
RepoRequests ==
    DepositRequests \cup WithdrawRequests
    \cup {[op |-> "deposit", user_id |-> MissingUser, to_user_id |-> 0,
           amount |-> OtherAmount, fee |-> 0, key |-> "k1"]}

RepoSteps ==
    {"repo_idem", "repo_replay", "repo_user", "repo_reserve", "repo_create",
     "repo_post1", "repo_post2", "repo_balance", "repo_commit"}

\* The statement that follows each statement of Deposit / Withdraw.
RepoNextStep(step) ==
    CASE step = "repo_idem" -> "repo_user"
      [] step = "repo_user" -> "repo_reserve"
      [] step = "repo_reserve" -> "repo_create"
      [] step = "repo_create" -> "repo_post1"
      [] step = "repo_post1" -> "repo_post2"
      [] step = "repo_post2" -> "repo_balance"
      [] step = "repo_balance" -> "repo_commit"

\* SELECT id FROM accounts WHERE external_id = 'sys_reserve': the row is
\* selected by its external_id alone, whatever its type.
reserveAccountID == ExternalAccountIn(accountRows, "sys_reserve")

\* The posting the statement inserts: Deposit debits the reserve and then
\* credits the wallet, Withdraw debits the wallet and then credits the
\* reserve.
RepoPosting(w) ==
    LET userAccountID == AccountIdOfUser(req[w].user_id)
        debit == -req[w].amount
    IN  IF (req[w].op = "deposit") = (pc[w] = "repo_post1")
        THEN [transaction_id |-> local[w].txn_id, account_id |-> reserveAccountID,
              amount |-> IF req[w].op = "deposit" THEN debit ELSE req[w].amount]
        ELSE [transaction_id |-> local[w].txn_id, account_id |-> userAccountID,
              amount |-> IF req[w].op = "deposit" THEN req[w].amount ELSE debit]

\* r.db.Begin: the call opens its database transaction.
RepoBegin(w) ==
    /\ pc[w] = "idle"
    /\ issued < MaxRequests
    /\ \E r \in RepoRequests :
          /\ req' = [req EXCEPT ![w] = r]
          /\ priorTxn' =
               [priorTxn EXCEPT ![w] =
                   IF \E t \in transactions : t.idempotency_key = r.key
                   THEN (CHOOSE t \in transactions : t.idempotency_key = r.key).id
                   ELSE 0]
    /\ pc' = [pc EXCEPT ![w] = "repo_idem"]
    /\ resp' = [resp EXCEPT ![w] = NoResp]
    /\ issued' = issued + 1
    /\ lockSeq' = [lockSeq EXCEPT ![w] = <<>>]
    /\ checkLocks' = [checkLocks EXCEPT ![w] = NotChecked]
    /\ local' = [local EXCEPT ![w] = NoLocal]
    /\ UNCHANGED <<catalog, accounts, transactions, postings, txn_id_seq, lockHolder, tx>>

\* 1. Check idempotency: SELECT id FROM transactions WHERE idempotency_key.
RepoCheckIdempotency(w) ==
    /\ pc[w] = "repo_idem"
    /\ LET existingTxn == TransactionsByKey(req[w].key)
       IN  IF existingTxn # {}
           THEN /\ local' = [local EXCEPT ![w].existing =
                                (CHOOSE t \in existingTxn : TRUE).id]
                /\ pc' = [pc EXCEPT ![w] = "repo_replay"]
           ELSE /\ pc' = [pc EXCEPT ![w] = RepoNextStep(pc[w])]
                /\ UNCHANGED local
    /\ UNCHANGED <<catalog, accounts, transactions, postings, txn_id_seq, lockHolder, tx,
                   req, resp, issued, lockSeq, checkLocks, priorTxn>>

\* The key exists: SELECT balance FROM accounts WHERE user_id (its error is
\* dropped, the balance stays 0), return the existing transaction.
RepoReturnExisting(w) ==
    /\ pc[w] = "repo_replay"
    /\ LET a == AccountIdOfUser(req[w].user_id)
       IN  \E balance \in {0} \cup (IF a = NoAccount THEN {} ELSE {CommittedBalance(a)}) :
               resp' = [resp EXCEPT ![w] =
                           [err |-> "nil", txn_id |-> local[w].existing,
                            status |-> "posted", balance |-> balance,
                            recipient_balance |-> 0, replay |-> TRUE]]
    /\ Rollback(w)
    /\ pc' = [pc EXCEPT ![w] = "idle"]
    /\ UNCHANGED <<catalog, txn_id_seq, req, local, issued, lockSeq, checkLocks, priorTxn>>

\* 2. Get user account: SELECT id [, balance] FROM accounts WHERE user_id,
\* without a lock; Withdraw then checks the balance it read.
RepoGetUserAccount(w) ==
    /\ pc[w] = "repo_user"
    /\ LET r == req[w]
           a == AccountIdOfUser(r.user_id)
       IN  IF a = NoAccount
           THEN /\ ReturnError(w, "ErrAccountNotFound")
                /\ UNCHANGED local
           ELSE IF r.op = "withdraw" /\ CommittedBalance(a) < r.amount
           THEN /\ Rollback(w)
                /\ resp' = [resp EXCEPT ![w] =
                              [ErrResp("ErrInsufficientBalance")
                                  EXCEPT !.balance = CommittedBalance(a)]]
                /\ pc' = [pc EXCEPT ![w] = "idle"]
                /\ local' = [local EXCEPT ![w].first = CommittedBalance(a)]
           ELSE /\ local' = [local EXCEPT ![w].first =
                                IF r.op = "withdraw" THEN CommittedBalance(a) ELSE @]
                /\ pc' = [pc EXCEPT ![w] = RepoNextStep(pc[w])]
                /\ UNCHANGED <<accounts, transactions, postings, lockHolder, tx, resp>>
    /\ UNCHANGED <<catalog, txn_id_seq, req, issued, lockSeq, checkLocks, priorTxn>>

\* 3. Get reserve account: SELECT id FROM accounts WHERE external_id =
\* 'sys_reserve', without a lock.
RepoGetReserveAccount(w) ==
    /\ pc[w] = "repo_reserve"
    /\ IF reserveAccountID = NoAccount
       THEN ReturnError(w, "failed to get reserve account")
       ELSE /\ pc' = [pc EXCEPT ![w] = RepoNextStep(pc[w])]
            /\ UNCHANGED <<accounts, transactions, postings, lockHolder, tx, resp>>
    /\ UNCHANGED <<catalog, txn_id_seq, req, local, issued, lockSeq, checkLocks, priorTxn>>

\* 4. Create transaction record: INSERT INTO transactions ... RETURNING id.
\* The id is drawn from the sequence before the statement waits, in the
\* unique index, for an open transaction that inserted the same key.
RepoCreateTransaction(w) ==
    /\ pc[w] = "repo_create"
    /\ LET waited == local[w].nextval # 0
           id == IF waited THEN local[w].nextval ELSE txn_id_seq + 1
       IN  /\ txn_id_seq' = IF waited THEN txn_id_seq ELSE id
           /\ IF ~NotNullViolation /\ KeyInFlight(req[w].key, w)
              THEN /\ ~waited
                   /\ local' = [local EXCEPT ![w].nextval = id]
                   /\ UNCHANGED <<accounts, transactions, postings, lockHolder, tx,
                                  pc, resp>>
              ELSE IF NotNullViolation \/ UniqueViolation(req[w].key)
              THEN /\ ReturnError(w, "failed to create transaction")
                   /\ local' = [local EXCEPT ![w].nextval = 0]
              ELSE /\ tx' = [tx EXCEPT ![w].txn =
                               {[id |-> id, idempotency_key |-> req[w].key,
                                 kind |-> KindOf(req[w]),
                                 status |-> "posted"]}]
                   /\ local' = [local EXCEPT ![w].txn_id = id, ![w].nextval = 0]
                   /\ pc' = [pc EXCEPT ![w] = RepoNextStep(pc[w])]
                   /\ UNCHANGED <<accounts, transactions, postings, lockHolder, resp>>
    /\ UNCHANGED <<catalog, req, issued, lockSeq, checkLocks, priorTxn>>

\* 5. Create postings: INSERT INTO postings; the balance trigger updates
\* the account row, waiting for and then taking its row lock.
RepoCreatePosting(w) ==
    /\ pc[w] \in {"repo_post1", "repo_post2"}
    /\ LET p == RepoPosting(w)
           a == p.account_id
           nb == update_account_balance_on_posting(accounts[a] + tx[w].delta[a], p.amount)
       IN  /\ RowLockFree(a, w)
           /\ IF non_zero_amount(p.amount) /\ valid_balance(accountRows[a].type, nb)
              THEN /\ tx' = [tx EXCEPT ![w].postings = @ \cup {p},
                                       ![w].delta[a] = nb - accounts[a]]
                   /\ lockHolder' = RowUpdateLock(lockHolder, a, w)
                   /\ lockSeq' = [lockSeq EXCEPT ![w] = Append(@, a)]
                   /\ pc' = [pc EXCEPT ![w] = RepoNextStep(pc[w])]
                   /\ UNCHANGED <<accounts, transactions, postings, resp>>
              ELSE /\ ReturnError(w, "failed to create posting")
                   /\ UNCHANGED lockSeq
    /\ UNCHANGED <<catalog, txn_id_seq, req, local, issued, checkLocks, priorTxn>>

\* w waits for a row lock held by o.
RepoWaitsFor(w, o) ==
    /\ w # o
    /\ pc[w] \in {"repo_post1", "repo_post2"}
    /\ lockHolder[RepoPosting(w).account_id] = o

\* The database finds w in a lock cycle and aborts its statement; the
\* posting insert returns the error and the call rolls back.
RepoDeadlockDetected(w) ==
    /\ \E o \in Workers : RepoWaitsFor(w, o) /\ RepoWaitsFor(o, w)
    /\ ReturnError(w, "failed to create posting")
    /\ UNCHANGED <<catalog, txn_id_seq, req, local, issued, lockSeq, checkLocks, priorTxn>>

\* 6. Get the updated balance: SELECT balance FROM accounts WHERE id, inside
\* the transaction (its own update included).
RepoGetUpdatedBalance(w) ==
    /\ pc[w] = "repo_balance"
    /\ LET a == AccountIdOfUser(req[w].user_id)
       IN  local' = [local EXCEPT ![w].second = accounts[a] + tx[w].delta[a]]
    /\ pc' = [pc EXCEPT ![w] = RepoNextStep(pc[w])]
    /\ UNCHANGED <<catalog, accounts, transactions, postings, txn_id_seq, lockHolder, tx,
                   req, resp, issued, lockSeq, checkLocks, priorTxn>>

\* tx.Commit (the deferred double-entry trigger included) and the return of
\* (txnID, newBalance, nil).
RepoCommit(w) ==
    /\ pc[w] = "repo_commit"
    /\ IF enforce_double_entry(w)
       THEN /\ CommitWrites(w)
            /\ resp' = [resp EXCEPT ![w] =
                          [err |-> "nil", txn_id |-> local[w].txn_id,
                           status |-> "posted", balance |-> local[w].second,
                           recipient_balance |-> 0, replay |-> FALSE]]
            /\ pc' = [pc EXCEPT ![w] = "idle"]
       ELSE ReturnError(w, "failed to commit")
    /\ UNCHANGED <<catalog, txn_id_seq, req, local, issued, lockSeq, checkLocks, priorTxn>>

\* A statement of the open transaction fails for a reason outside the
\* ledger: the call returns the error.  The balance query of the replay
\* branch is the one statement whose error is dropped.
RepoFail(w) ==
    /\ pc[w] \in RepoSteps \ {"repo_replay"}
    /\ ReturnError(w, IF pc[w] = "repo_commit" THEN "failed to commit" ELSE "infrastructure")
    /\ UNCHANGED <<catalog, txn_id_seq, req, local, issued, lockSeq, checkLocks, priorTxn>>

RepoStep(w) ==
    \/ RepoBegin(w)
    \/ RepoCheckIdempotency(w)
    \/ RepoReturnExisting(w)
    \/ RepoGetUserAccount(w)
    \/ RepoGetReserveAccount(w)
    \/ RepoCreateTransaction(w)
    \/ RepoCreatePosting(w)
    \/ RepoGetUpdatedBalance(w)
    \/ RepoCommit(w)

RepoNext ==
    \/ \E w \in Workers : RepoStep(w) \/ RepoDeadlockDetected(w) \/ RepoFail(w)
    \/ Signup

\* The ledger served through WalletRepository.Deposit / Withdraw.
RepoSpec == Init /\ [][RepoNext]_vars

\* C23 (repository calls never deadlock): no state has a Deposit and a
\* Withdraw of the same user, made through WalletRepository, each waiting
\* for an account row lock that the other holds.
C23_RepoNeverDeadlocks ==
    \A w, o \in Workers :
        (/\ req[w].op = "deposit" /\ req[o].op = "withdraw"
         /\ req[w].user_id = req[o].user_id)
        => ~(RepoWaitsFor(w, o) /\ RepoWaitsFor(o, w))

\* Two Withdraw calls running together on one wallet, under distinct keys,
\* for amounts the wallet cannot cover together.
\* All that was ever credited to the account: its funding and the deposits
\* committed since.
Credited(a) == SumAmounts({p \in postings : p.account_id = a /\ p.amount > 0})

RivalWithdrawals(w, o) ==
    /\ w # o
    /\ req[w].op = "withdraw" /\ req[o].op = "withdraw"
    /\ req[w].user_id = req[o].user_id
    /\ req[w].key # req[o].key
    /\ req[w].amount + req[o].amount > Credited(AccountIdOfUser(req[w].user_id))

\* C24 (rival withdrawals): of two concurrent WalletRepository.Withdraw
\* calls on one user, with distinct keys and amounts that together exceed
\* the balance, at most one commits, and the committed balance of a user
\* wallet is never negative.
C24_AtMostOneWithdraws ==
    /\ \A w, o \in Workers :
          RivalWithdrawals(w, o) => ~(Created(w) /\ Created(o))
    /\ \A a \in DOMAIN accountRows : accountRows[a].type = "user" => accounts[a] >= 0

\* Both passed the balance check on the same committed balance, one has
\* committed, and the other was refused by the CHECK when its posting ran.
C24_Witness ==
    \E w, o \in Workers :
        /\ RivalWithdrawals(w, o)
        /\ local[w].first = local[o].first
        /\ local[w].first >= req[w].amount
        /\ Created(w)
        /\ Finished(o) /\ resp[o].err = "failed to create posting"
        /\ accounts[AccountIdOfUser(req[w].user_id)] = local[w].first - req[w].amount

\* ------------------------------------------------------------------------
\* One request served alone, from validation to response, on a ledger
\* nobody else is using: the reference for executions that overlap.
\* ------------------------------------------------------------------------
SeedLedger ==
    [accounts |-> SeedBalances,
     transactions |-> SeededTransactions,
     postings |-> SeededPostings,
     seq |-> Cardinality(SeededTransactions)]

\* The users whose wallets the operation locks, in order.
UsersLocked(r) ==
    IF r.op = "transfer" THEN <<firstUserID(r), secondUserID(r)>>
    ELSE <<r.user_id>>

\* The account rows after the first n signups that created a wallet.
RowsAfter(n) ==
    [a \in DOMAIN SeededRows \cup
            {b \in SignupRows : Cardinality({c \in SignupRows : c <= b}) <= n}
        |-> accountRows[a]]

\* Deposit / Withdraw / Transfer run to completion on the ledger st, whose
\* account rows are rows.
ServeAlone(st, r, rows) ==
    LET rejected == ValidateRequest(r)
        existingTxn == {t \in st.transactions : t.idempotency_key = r.key}
        locked == UsersLocked(r)
        missing == \E i \in 1..Len(locked) : AccountIdIn(rows, locked[i]) = NoAccount
        id == st.seq + 1
        l == [first |-> st.accounts[AccountIdIn(rows, locked[1])],
              second |-> IF r.op = "transfer"
                         THEN st.accounts[AccountIdIn(rows, locked[2])] ELSE 0,
              txn_id |-> id, existing |-> 0, nextval |-> 0]
        written == {PostingFor(r, step, id) : step \in PostingSteps(r)}
        legs == {PostingFor(r, step, id) : step \in PostingSteps(r) \ {"post3"}}
        Allowed(P) ==
            \A p \in P :
                /\ non_zero_amount(p.amount)
                /\ valid_balance(rows[p.account_id].type,
                       update_account_balance_on_posting(
                           st.accounts[p.account_id], p.amount))
        ok == SuccessResp(r, l, id)
        burnt == [st EXCEPT !.seq = id]
    IN  IF rejected # "nil" THEN [st |-> st, resp |-> ErrResp(rejected)]
        ELSE IF existingTxn # {}
        THEN [st |-> st,
              resp |->
                 IF \/ AccountIdIn(rows, r.user_id) = NoAccount
                    \/ r.op = "transfer" /\ AccountIdIn(rows, r.to_user_id) = NoAccount
                 THEN ErrResp("ErrAccountNotFound")
                 ELSE [err |-> "nil",
                       txn_id |-> (CHOOSE t \in existingTxn : TRUE).id,
                       status |-> "posted",
                       balance |-> st.accounts[AccountIdIn(rows, r.user_id)],
                       recipient_balance |->
                           IF r.op = "transfer"
                           THEN st.accounts[AccountIdIn(rows, r.to_user_id)] ELSE 0,
                       replay |-> TRUE]]
        ELSE IF missing THEN [st |-> st, resp |-> ErrResp("ErrAccountNotFound")]
        ELSE IF r.op # "deposit"
                /\ InsufficientBalance(DebitedBalance(r, l), totalDebit(r))
        THEN [st |-> st, resp |-> ErrResp("ErrInsufficientBalance")]
        ELSE IF r.op # "transfer" /\ SystemAccountIn(rows, "sys_reserve") = NoAccount
        THEN [st |-> st, resp |-> ErrResp("reserve account not found")]
        ELSE IF NotNullViolation
        THEN [st |-> burnt, resp |-> ErrResp("failed to create transaction")]
        ELSE IF ~Allowed(legs)
        THEN [st |-> burnt, resp |-> ErrResp("failed to create posting")]
        ELSE IF r.op = "transfer" /\ r.fee > 0
                /\ SystemAccountIn(rows, "sys_fee") = NoAccount
        THEN [st |-> burnt, resp |-> ErrResp("fee account not found")]
        ELSE IF ~Allowed(written)
        THEN [st |-> burnt, resp |-> ErrResp("failed to create posting")]
        ELSE IF SumAmounts(written) # 0
        THEN [st |-> burnt, resp |-> ErrResp("failed to commit")]
        ELSE [st |->
                 [accounts |->
                     [a \in AccountIdRange |->
                         st.accounts[a]
                         + SumAmounts({p \in written : p.account_id = a})],
                  transactions |->
                     st.transactions \cup
                     {[id |-> id, idempotency_key |-> r.key, kind |-> KindOf(r),
                       status |-> "posted"]},
                  postings |-> st.postings \cup written,
                  seq |-> id],
              resp |->
                 IF r.op # "transfer" /\ ok.balance < 0
                 THEN ErrResp("ErrNegativeBalance") ELSE ok]

\* The requests of the workers in order, served one at a time; seen[i]
\* signups were made before the i-th.
RECURSIVE ServeInOrder(_, _, _)
ServeInOrder(st, order, seen) ==
    IF order = <<>> THEN [st |-> st, out |-> <<>>]
    ELSE LET one == ServeAlone(st, req[Head(order)], RowsAfter(Head(seen)))
             rest == ServeInOrder(one.st, Tail(order), Tail(seen))
         IN  [st |-> rest.st, out |-> <<one.resp>> \o rest.out]

Orders(S) ==
    {o \in [1..Cardinality(S) -> S] :
        \A i, j \in 1..Cardinality(S) : i # j => o[i] # o[j]}

\* The places the signups made so far can take among n requests served one
\* at a time: how many of them come before each request.
SignupPlaces(n) ==
    {s \in [1..n -> 0..SignupsDone] : \A i, j \in 1..n : i < j => s[i] <= s[j]}

\* The workers that served a request.
Served == {w \in Workers : req[w] # NoRequest}

\* Every request received has been answered, each by a worker of its own,
\* under keys that differ, and no call failed for a reason outside the
\* ledger.
AllAnswered ==
    /\ \A w \in Workers : pc[w] = "idle"
    /\ Cardinality(Served) = issued
    /\ \A w, o \in Served : w # o => req[w].key # req[o].key
    /\ \A w \in Served : resp[w].err \notin OutsideLedger

\* The committed state and the responses are those of the requests served
\* one at a time in the order given, the signups falling where seen says.
SameAsServed(order, seen) ==
    LET run == ServeInOrder(SeedLedger, order, seen)
    IN  /\ accounts = run.st.accounts
        /\ transactions = run.st.transactions
        /\ postings = run.st.postings
        /\ \A i \in 1..Len(order) : resp[order[i]] = run.out[i]

SameAsInOrder(order) ==
    \E seen \in SignupPlaces(Len(order)) : SameAsServed(order, seen)

\* C25 (serializable): when requests under pairwise distinct keys,
\* overlapping in any way with each other and with signups, have all been
\* answered, the committed balances, transactions and postings and every
\* response are those of the same requests and signups served one at a
\* time in some order.
C25_Serializable ==
    AllAnswered => \E order \in Orders(Served) : SameAsInOrder(order)

\* Two requests on one wallet were both carried out, and the only order
\* that explains the outcome serves worker 2 first.
C25_Witness ==
    /\ AllAnswered
    /\ Served = Workers
    /\ \A w \in Workers : Created(w)
    /\ req[1].op = "withdraw" /\ req[2].op = "deposit"
    /\ req[1].user_id = req[2].user_id
    /\ SameAsInOrder(<<2, 1>>)
    /\ ~SameAsInOrder(<<1, 2>>)

\* C26 (reported balances): the step by which a Deposit, Withdraw or
\* Transfer commits leaves, in its response, the balance of the user's (the
\* sender's) wallet and, for a Transfer, of the recipient's wallet exactly
\* as they are in the committed state that step produces, whatever other
\* operations are under way on the same accounts.
C26_ResponseIsCommittedBalance ==
    [][\A w \in Workers :
          CommitsNow(w) =>
              /\ ~resp'[w].replay
              /\ resp'[w].balance = accounts'[AccountIdOfUser(req[w].user_id)]
              /\ req[w].op = "transfer" =>
                    resp'[w].recipient_balance
                        = accounts'[AccountIdOfUser(req[w].to_user_id)]]_vars

\* A Transfer with a fee has just committed and reports both wallets as
\* committed, while another operation on the sender's wallet, begun
\* meanwhile, stands before its first lock.
C26_Witness ==
    \E w, o \in Workers :
        /\ w # o
        /\ req[w].op = "transfer" /\ req[w].fee > 0 /\ Created(w)
        /\ resp[w].balance = accounts[AccountIdOfUser(req[w].user_id)]
        /\ resp[w].balance
              = SeedBalances[AccountIdOfUser(req[w].user_id)] - totalDebit(req[w])
        /\ resp[w].recipient_balance = accounts[AccountIdOfUser(req[w].to_user_id)]
        /\ pc[o] = "lock_user" /\ req[o].user_id = req[w].user_id

\* ------------------------------------------------------------------------
\* Transfer with the fee at its full width: a fee can be any int64.
\* ------------------------------------------------------------------------
\* Fees a caller can put in TransferRequest.Fee (int64).
Fees64 ==
    {Int64Of(0), Int64Of(5000), Int64Of(-5000),
     <<7, Limb - 1, Limb - 1 - MinTransferAmount>>,
     <<7, Limb - 1, Limb - MinTransferAmount>>,
     MaxInt64, MinInt64}

WideTransferRequests ==
    [op : {"transfer"}, user_id : Callers, to_user_id : Callers,
     amount : {MinTransferAmount, MaxTransactionAmount, MaxTransactionAmount + 1}
              \cup Amounts,
     fee : Fees64, key : {"k1"}]

\* Transfer's validation, the fee at full width.
ValidateWideTransfer(r) ==
    IF r.key = "" THEN "ErrInvalidIdempotencyKey"
    ELSE IF r.user_id = r.to_user_id THEN "ErrSameAccount"
    ELSE IF validateTransferAmount(r.amount) # "nil" THEN validateTransferAmount(r.amount)
    ELSE IF Negative64(r.fee) THEN "ErrInvalidAmount"
    ELSE "nil"

\* totalDebit := req.Amount + req.Fee, the fee given as an int64.
totalDebit64(r) == Add64(Int64Of(r.amount), r.fee)

\* SUM(amount) over a set of postings with int64 amounts.
RECURSIVE SumAmounts64(_)
SumAmounts64(S) ==
    IF S = {} THEN <<0, 0, 0>>
    ELSE LET p == CHOOSE q \in S : TRUE
         IN  ExactAdd(Exact(p.amount), SumAmounts64(S \ {p}))

\* Transfer receives a request and validates it.
TransferWide(w) ==
    /\ pc[w] = "idle"
    /\ issued < MaxRequests
    /\ \E r \in WideTransferRequests :
          /\ req' = [req EXCEPT ![w] = r]
          /\ priorTxn' =
               [priorTxn EXCEPT ![w] =
                   IF \E t \in transactions : t.idempotency_key = r.key
                   THEN (CHOOSE t \in transactions : t.idempotency_key = r.key).id
                   ELSE 0]
          /\ IF ValidateWideTransfer(r) # "nil"
             THEN /\ resp' = [resp EXCEPT ![w] = ErrResp(ValidateWideTransfer(r))]
                  /\ pc' = [pc EXCEPT ![w] = "idle"]
             ELSE /\ resp' = [resp EXCEPT ![w] = NoResp]
                  /\ pc' = [pc EXCEPT ![w] = "lookup"]
    /\ issued' = issued + 1
    /\ lockSeq' = [lockSeq EXCEPT ![w] = <<>>]
    /\ checkLocks' = [checkLocks EXCEPT ![w] = NotChecked]
    /\ local' = [local EXCEPT ![w] = NoLocal]
    /\ UNCHANGED <<catalog, accounts, transactions, postings, txn_id_seq, lockHolder, tx>>

\* GetAccountByUserIDForUpdate for the first and the second wallet.
LockWallet(w) ==
    /\ pc[w] \in {"lock_first", "lock_second"}
    /\ LET r == req[w]
           a == AccountIdOfUser(UserToLock(r, pc[w]))
       IN  IF a = NoAccount
           THEN /\ ReturnError(w, "ErrAccountNotFound")
                /\ UNCHANGED <<local, lockSeq>>
           ELSE /\ RowLockFree(a, w)
                /\ lockHolder' = ForUpdate(lockHolder, a, w)
                /\ local' = [local EXCEPT ![w] =
                               IF pc[w] = "lock_second"
                               THEN [@ EXCEPT !.second = accounts[a]]
                               ELSE [@ EXCEPT !.first = accounts[a]]]
                /\ lockSeq' = [lockSeq EXCEPT ![w] = Append(@, a)]
                /\ pc' = [pc EXCEPT ![w] =
                            IF pc[w] = "lock_first" THEN "lock_second" ELSE "total_debit"]
                /\ UNCHANGED <<accounts, transactions, postings, tx, resp>>
    /\ UNCHANGED <<catalog, txn_id_seq, req, issued, checkLocks, priorTxn>>

\* if senderAccount.Balance < totalDebit { return ErrInsufficientBalance }
CheckTotalDebit(w) ==
    /\ pc[w] = "total_debit"
    /\ checkLocks' = [checkLocks EXCEPT ![w] =
                         {lockSeq[w][i] : i \in 1..Len(lockSeq[w])}]
    /\ IF Less64(Int64Of(DebitedBalance(req[w], local[w])), totalDebit64(req[w]))
       THEN ReturnError(w, "ErrInsufficientBalance")
       ELSE /\ pc' = [pc EXCEPT ![w] = "create_txn"]
            /\ UNCHANGED <<accounts, transactions, postings, lockHolder, tx, resp>>
    /\ UNCHANGED <<catalog, txn_id_seq, req, local, issued, lockSeq, priorTxn>>

\* The posting each CreatePosting call of executeTransfer inserts, the
\* amounts as int64.
PostingFor64(r, step, txnId) ==
    CASE step = "post1" ->
            [transaction_id |-> txnId, account_id |-> AccountIdOfUser(r.user_id),
             amount |-> Neg64(totalDebit64(r))]
      [] step = "post2" ->
            [transaction_id |-> txnId, account_id |-> AccountIdOfUser(r.to_user_id),
             amount |-> Int64Of(r.amount)]
      [] step = "post3" ->
            [transaction_id |-> txnId, account_id |-> SystemAccountId("sys_fee"),
             amount |-> r.fee]

\* CreatePosting with the balance trigger and the CHECK constraints; a
\* balance outside BIGINT is an error of the trigger's UPDATE.
CreatePosting64(w) ==
    /\ pc[w] \in {"post1", "post2", "post3"}
    /\ LET r == req[w]
           p == PostingFor64(r, pc[w], local[w].txn_id)
           a == p.account_id
           nb == ExactAdd(Exact(Int64Of(accounts[a])), Exact(p.amount))
       IN  /\ RowLockFree(a, w)
           /\ IF /\ p.amount # Int64Of(0)
                 /\ InBigint(nb)
                 /\ nb[1] >= 0 \/ accountRows[a].type \in {"system", "reserve"}
              THEN /\ tx' = [tx EXCEPT ![w].postings = @ \cup {p}]
                   /\ lockHolder' = RowUpdateLock(lockHolder, a, w)
                   /\ pc' = [pc EXCEPT ![w] =
                               CASE pc[w] = "post1" -> "post2"
                                 [] pc[w] = "post2" ->
                                       IF Less64(Int64Of(0), r.fee)
                                       THEN "lock_fee" ELSE "commit"
                                 [] pc[w] = "post3" -> "commit"]
                   /\ UNCHANGED <<accounts, transactions, postings, resp>>
              ELSE ReturnError(w, "failed to create posting")
    /\ UNCHANGED <<catalog, txn_id_seq, req, local, issued, lockSeq, checkLocks, priorTxn>>

\* postings_balance_trigger at commit, on the rows w inserted.
enforce_double_entry64(w) == SumAmounts64(tx[w].postings) = <<0, 0, 0>>

\* tx.Commit and the balances executeTransfer returns.
Commit64(w) ==
    /\ pc[w] = "commit"
    /\ IF enforce_double_entry64(w)
       THEN /\ accounts' =
                 [a \in AccountIdRange |->
                     IntOf(ExactAdd(Exact(Int64Of(accounts[a])),
                         SumAmounts64({p \in tx[w].postings : p.account_id = a})))]
            /\ transactions' = transactions \cup tx[w].txn
            /\ postings' =
                 postings \cup
                 {[p EXCEPT !.amount = IntOf(Exact(p.amount))] : p \in tx[w].postings}
            /\ tx' = [tx EXCEPT ![w] = NoTx]
            /\ lockHolder' = Released(w)
            /\ LET sr == MapBack(req[w], local[w].first, local[w].second)
               IN  resp' = [resp EXCEPT ![w] =
                       [err |-> "nil", txn_id |-> local[w].txn_id,
                        status |-> "posted",
                        balance |->
                            IntOf(Exact(Add64(Int64Of(sr[1]),
                                              Neg64(totalDebit64(req[w]))))),
                        recipient_balance |-> sr[2] + req[w].amount,
                        replay |-> FALSE]]
            /\ pc' = [pc EXCEPT ![w] = "idle"]
       ELSE ReturnError(w, "failed to commit")
    /\ UNCHANGED <<catalog, txn_id_seq, req, local, issued, lockSeq, checkLocks, priorTxn>>

WideStep(w) ==
    \/ TransferWide(w)
    \/ GetTransactionByIdempotencyKey(w)
    \/ BuildIdempotentResponse(w)
    \/ LockWallet(w)
    \/ CheckTotalDebit(w)
    \/ CreateTransaction(w)
    \/ CreatePosting64(w)
    \/ GetSystemAccountForUpdate(w)
    \/ Commit64(w)

WideNext == (\E w \in Workers : WideStep(w) \/ Fail(w)) \/ Signup

\* Transfer with the amounts at the width the code computes them.
WideSpec == Init /\ [][WideNext]_vars

\* amount + fee, the sum the caller is charged.
AmountPlusFee(r) == ExactAdd(Exact(Int64Of(r.amount)), Exact(r.fee))

\* The sender's balance read under the lock is below amount + fee.
BalanceShort(w) ==
    ExactLess(Exact(Int64Of(DebitedBalance(req[w], local[w]))), AmountPlusFee(req[w]))

\* C13 (Transfer, insufficient balance): a Transfer that passed validation
\* and locked two existing wallets is refused with ErrInsufficientBalance
\* exactly when the sender's balance read under the lock is below amount +
\* fee: it goes on to create its transaction only with a balance that
\* covers amount + fee, it is refused only with a balance that does not,
\* and a refused Transfer has written nothing.
C13_TransferRefused ==
    \A w \in Workers :
        req[w].op = "transfer" =>
            /\ pc[w] \in {"create_txn", "post1", "post2", "lock_fee", "post3", "commit"}
                  => ~BalanceShort(w)
            /\ Refused(w) => BalanceShort(w) /\ WroteNothing(w)

\* C27 (total debit does not wrap): for every Transfer that passed
\* validation, amount + fee computed on int64 is the true sum: it is not
\* negative and not below the amount.
C27_TotalDebitExact ==
    \A w \in Workers :
        pc[w] = "total_debit" =>
            /\ ~Negative64(totalDebit64(req[w]))
            /\ ~Less64(totalDebit64(req[w]), Int64Of(req[w].amount))

\* C28 (no invariant violation from valid requests): no request that
\* passed validation reaches its commit with postings that do not sum to
\* zero, and none is answered with the negative-balance integrity error.
C28_ChecksNeverFire ==
    \A w \in Workers :
        /\ pc[w] = "commit" => enforce_double_entry64(w)
        /\ resp[w].err # "ErrNegativeBalance"

\* The step by which w inserts a posting on account a.
InsertsPosting(w, a) ==
    /\ pc[w] \in {"post1", "post2", "post3"}
    /\ \E p \in tx'[w].postings \ tx[w].postings :
          /\ tx'[w].postings = tx[w].postings \cup {p}
          /\ p.account_id = a
          /\ tx'[w].delta[a] = tx[w].delta[a] + p.amount

\* C29 (balances change through postings under lock): a unit of work
\* changes the balance of an account only by inserting a posting on it,
\* and at that step it already holds the row lock on the account; the
\* committed balances change only when a unit of work commits, by the sum
\* of the postings it inserted.
C29_PostingUnderLock ==
    /\ [](\A w \in Workers : \A a \in AccountIdRange :
            tx[w].delta[a] # 0 => lockHolder[a] = w /\ a \in Held(w))
    /\ [][/\ \A w \in Workers : \A a \in AccountIdRange :
              (tx'[w].delta[a] # tx[w].delta[a] /\ tx'[w] # NoTx) =>
                  /\ InsertsPosting(w, a)
                  /\ lockHolder[a] = w
                  /\ a \in Held(w)
          /\ \A a \in AccountIdRange :
              accounts'[a] # accounts[a] =>
                  \E w \in Workers :
                      /\ CommitsNow(w)
                      /\ postings' = postings \cup tx[w].postings
                      /\ accounts'[a] - accounts[a]
                            = SumAmounts({p \in tx[w].postings : p.account_id = a})]_vars

\* A Deposit has inserted its posting on the reserve, whose lock it took
\* beforehand, and another operation is waiting for that lock.
C29_Witness ==
    \E w, o \in Workers :
        /\ req[w].op = "deposit" /\ pc[w] = "post2"
        /\ tx[w].delta[ReserveAccount] = -req[w].amount
        /\ lockHolder[ReserveAccount] = w
        /\ Blocked(o) /\ AccountNeeded(o) = ReserveAccount

\* The committed transaction whose key w's request carries.
PriorTransaction(w) == CHOOSE t \in transactions : t.id = priorTxn[w]

\* The request differs from the operation that committed under its key: in
\* kind, in the wallets it names, or in the amount.
Mismatch(w) ==
    LET legs == PostingsOfTransaction(priorTxn[w])
        wallets == {p.account_id : p \in {q \in legs : accountRows[q.account_id].type = "user"}}
    IN  \/ PriorTransaction(w).kind # KindOf(req[w])
        \/ wallets # {AccountIdOfUser(u) : u \in UsersOf(req[w])}
        \/ \A p \in legs : p.amount # req[w].amount

\* C30 as claimed: every request whose key belongs to a committed
\* transaction of another kind, owner or amount is answered, unless a call
\* of the repository fails, as a replay carrying that transaction's id.
C30_MismatchAlwaysReplays ==
    \A w \in Workers :
        (/\ LaterRequest(w) /\ req[w].op # "none" /\ Mismatch(w)
         /\ Finished(w) /\ resp[w].err \notin OutsideLedger) =>
            /\ resp[w].err = "nil"
            /\ resp[w].replay
            /\ resp[w].txn_id = priorTxn[w]

\* C30 (key reused for another operation), amended: a request whose key
\* belongs to a committed transaction of another kind, owner or amount
\* creates no transaction and no posting, takes no lock and changes no
\* balance, and the key keeps its one transaction; the payloads are not
\* compared: a request that fails the input validation gets the validation
\* error, and one that passes is answered, unless the lookup or the read
\* of a wallet fails, with ErrAccountNotFound if a user it names has no
\* wallet when the replay reads it and otherwise as a replay carrying the
\* existing transaction's id.
C30_MismatchReplays ==
    /\ [](\A w \in Workers :
            (LaterRequest(w) /\ req[w].op # "none" /\ Mismatch(w)) =>
                /\ NoSideEffect(w)
                /\ Cardinality(TransactionsByKey(req[w].key)) = 1
                /\ (Finished(w) /\ ValidateRequest(req[w]) # "nil") =>
                      resp[w].err = ValidateRequest(req[w]))
    /\ [][\A w \in Workers :
            (/\ LaterRequest(w) /\ req[w].op # "none" /\ Mismatch(w)
             /\ ReplayReturns(w)
             /\ resp'[w].err \notin OutsideLedger) =>
                IF AccountIdOfUser(UserRead(w)) = NoAccount
                THEN resp'[w].err = "ErrAccountNotFound"
                ELSE /\ resp'[w].err = "nil"
                     /\ resp'[w].replay
                     /\ resp'[w].txn_id = priorTxn[w]
                     /\ resp'[w].status = "posted"]_vars

\* A Deposit of another amount under the key of a committed Deposit by the
\* same user has been answered with the id of the first; one amount only
\* was credited.
C30_Witness ==
    \E w, o \in Workers :
        /\ w # o
        /\ LaterRequest(w) /\ Mismatch(w)
        /\ req[w].op = "deposit" /\ req[w].amount = OtherAmount
        /\ req[o].op = "deposit" /\ req[o].amount # OtherAmount
        /\ req[o].user_id = req[w].user_id
        /\ Created(o)
        /\ Succeeded(w) /\ resp[w].replay /\ resp[w].txn_id = resp[o].txn_id
        /\ accounts[AccountIdOfUser(req[w].user_id)]
              = SeedBalances[AccountIdOfUser(req[w].user_id)] + req[o].amount

\* C31 (validation first): a request that breaks a rule of the validation
\* is rejected with the error of that rule and is never answered as a
\* replay, also when its key is that of a committed transaction: the
\* lookup by key is not made for it.
C31_ValidationBeforeLookup ==
    \A w \in Workers :
        (req[w] # NoRequest /\ FirstRuleBroken(req[w]) # "nil") =>
            /\ Rejected(w, FirstRuleBroken(req[w]))
            /\ resp[w].err \in ValidationErrors
            /\ ~resp[w].replay
            /\ resp[w].txn_id = 0
            /\ local[w].existing = 0

\* A request with amount 0 arrived under the key of a committed
\* transaction and was rejected as an invalid amount.
C31_Witness ==
    \E w \in Workers :
        /\ LaterRequest(w)
        /\ TransactionsByKey(req[w].key) # {}
        /\ req[w].amount = 0
        /\ Rejected(w, "ErrInvalidAmount")

\* C32 (committed transactions are posted and immutable): every committed
\* transaction has status posted, never pending, failed or reversed; a
\* committed transaction row is never removed or changed (status, key and
\* kind stay), a committed posting is never removed or changed, and no
\* posting is added to a transaction that is already committed.
C32_PostedAndImmutable ==
    /\ [](\A t \in transactions : t.status = "posted")
    /\ [][/\ transactions \subseteq transactions'
          /\ postings \subseteq postings'
          /\ \A t \in transactions' \ transactions :
                \A u \in transactions : u.id # t.id /\ u.idempotency_key # t.idempotency_key
          /\ \A p \in postings' \ postings :
                \A t \in transactions : t.id # p.transaction_id]_vars

\* Two operations have committed one after the other; both transactions
\* are in the table with their postings.
C32_Witness ==
    /\ \A w \in Workers : Created(w)
    /\ \A w \in Workers :
          /\ \E t \in transactions :
                /\ t.id = resp[w].txn_id
                /\ t.idempotency_key = req[w].key
                /\ t.status = "posted"
          /\ PostingsOfTransaction(resp[w].txn_id) # {}
    /\ resp[1].txn_id # resp[2].txn_id

\* The transaction row w's open unit of work has inserted.
OpenTransactions(w) == tx[w].txn

\* C33 (status of a transaction): a transaction is pending inside its
\* unit of work, from the insert of its row until the commit, and posted
\* once committed.
C33_PendingUntilCommit ==
    /\ \A w \in Workers : \A t \in OpenTransactions(w) : t.status = "pending"
    /\ \A t \in transactions : t.status = "posted"

\* The number of postings an operation writes.
PostingCount(r) == IF r.op = "transfer" /\ r.fee > 0 THEN 3 ELSE 2

\* C34 (postings of a transaction): every committed transaction has at
\* least two postings, each with a non-zero amount; a unit of work that
\* reaches its commit has written exactly two postings for a Deposit, a
\* Withdraw and a Transfer with fee = 0 and exactly three for a Transfer
\* with fee > 0, all under the id of the transaction row it inserted, and
\* its commit adds the row and exactly these postings together.
C34_PostingsPerTransaction ==
    /\ [](\A t \in transactions :
            /\ Cardinality(PostingsOfTransaction(t.id)) >= 2
            /\ \A p \in PostingsOfTransaction(t.id) : non_zero_amount(p.amount))
    /\ [](\A w \in Workers :
            pc[w] = "commit" =>
                /\ Cardinality(tx[w].postings) = PostingCount(req[w])
                /\ \A p \in tx[w].postings :
                      /\ p.transaction_id = local[w].txn_id
                      /\ \E t \in tx[w].txn : t.id = p.transaction_id)
    /\ [](\A w \in Workers :
            Created(w) =>
                Cardinality(PostingsOfTransaction(resp[w].txn_id))
                    = PostingCount(req[w]))
    /\ [][\A w \in Workers :
            CommitsNow(w) =>
                /\ transactions' = transactions \cup tx[w].txn
                /\ postings' = postings \cup tx[w].postings
                /\ PostingsOfTransaction(local[w].txn_id) = {}]_vars

\* A Transfer with a fee and a Deposit have committed: three postings
\* under the first transaction, two under the second.
C34_Witness ==
    \E w, o \in Workers :
        /\ Created(w) /\ req[w].op = "transfer" /\ req[w].fee > 0
        /\ Cardinality(PostingsOfTransaction(resp[w].txn_id)) = 3
        /\ Created(o) /\ req[o].op = "deposit"
        /\ Cardinality(PostingsOfTransaction(resp[o].txn_id)) = 2

\* The accounts an operation may lock: the wallets of the users it names
\* and the system account it posts to.
AccountsTouched(r) ==
    ({AccountIdOfUser(u) : u \in UsersOf(r)}
     \cup (CASE r.op = "transfer" -> IF r.fee > 0 THEN {FeeAccount} ELSE {}
             [] OTHER -> {ReserveAccount}))
    \ {NoAccount}

\* Two units of work are open, on disjoint sets of accounts and under
\* different keys.
DisjointOperations(w, o) ==
    /\ w # o
    /\ pc[w] \in TxSteps /\ pc[o] \in TxSteps
    /\ AccountsTouched(req[w]) \cap AccountsTouched(req[o]) = {}
    /\ req[w].key # req[o].key

\* C35 (disjoint operations run in parallel): of two operations under way
\* at the same time on disjoint sets of accounts and with different keys,
\* neither ever waits for the other: the row lock either needs next is
\* free for it unless a third operation holds that row, and its insert of
\* the transaction row does not wait for the other's.
C35_DisjointNeverWait ==
    \A w, o \in Workers :
        DisjointOperations(w, o) =>
            /\ (AccountNeeded(w) # NoAccount /\ ~RowLockFree(AccountNeeded(w), w)) =>
                  \E u \in Workers \ {w, o} : lockHolder[AccountNeeded(w)] = u
            /\ \A t \in tx[o].txn : t.idempotency_key # req[w].key
            /\ o \notin WaitsFor(w)
            /\ Held(w) \cap Held(o) = {}

\* A Deposit holds the locks on its user's wallet and on the reserve while
\* a Transfer between the two other users holds the locks on both their
\* wallets: each has created its transaction, and neither waited.
C35_Witness ==
    \E w, o \in Workers :
        /\ DisjointOperations(w, o)
        /\ req[w].op = "deposit" /\ pc[w] = "post1"
        /\ Held(w) = AccountsTouched(req[w])
        /\ req[o].op = "transfer" /\ pc[o] = "post1"
        /\ \A u \in UsersOf(req[o]) : AccountIdOfUser(u) \in Held(o)
        /\ Cardinality(Held(o)) = 2
        /\ Held(o) = AccountsTouched(req[o])

\* The step by which w's operation returns from its unit of work.
Returns(w) == pc[w] \in TxSteps /\ pc'[w] = "idle"

\* C36 (every unit of work is ended): an operation that opened a unit of
\* work returns only by a step that commits it (its rows join the
\* committed tables) or rolls it back (the committed tables stay as they
\* are); either way the rows it wrote are no longer pending and it holds no
\* account lock once it has returned, and a rollback issued after a
\* successful commit finds nothing to undo and no lock to release.
C36_UnitOfWorkEnded ==
    /\ [](\A w \in Workers :
            pc[w] \notin TxSteps =>
                /\ tx[w] = NoTx
                /\ \A a \in AccountIdRange : lockHolder[a] # w)
    /\ [](\A w \in Workers :
            Created(w) =>
                /\ [tx EXCEPT ![w] = NoTx] = tx
                /\ Released(w) = lockHolder)
    /\ [][\A w \in Workers :
            Returns(w) =>
                /\ tx'[w] = NoTx
                /\ \A a \in AccountIdRange : lockHolder'[a] # w
                /\ \A a \in AccountIdRange :
                      lockHolder[a] # w => lockHolder'[a] = lockHolder[a]
                /\ IF resp'[w].err = "nil"
                   THEN /\ transactions' = transactions \cup tx[w].txn
                        /\ postings' = postings \cup tx[w].postings
                   ELSE UNCHANGED db]_vars

\* One operation has committed and one has been refused after it had
\* locked its wallet and written nothing; no lock is held.
C36_Witness ==
    \E w, o \in Workers :
        /\ Created(w)
        /\ Finished(o) /\ resp[o].err = "ErrInsufficientBalance"
        /\ lockSeq[o] # <<>>
        /\ \A a \in AccountIdRange : lockHolder[a] = NoWorker
        /\ \A u \in Workers : tx[u] = NoTx

====
